---- MODULE Spec2Model ----
(***************************************************************************)
(* Phase-vocoder chain of pyo (src/trunk/src/objects/phasevocmodule.c):    *)
(* PVAnal -> [PVTranspose | PVVerb | PVGate] -> PVSynth, a server calling  *)
(* each node once per block of bufsize samples, in topological order.      *)
(*                                                                         *)
(* Audio samples are tracked by provenance: the input sample read at the   *)
(* absolute sample time t is the token t, and 0.0 (a zero-filled cell) is  *)
(* the token NoSample.  A spectral frame (one magn[o]/freq[o] row pair) is *)
(* the forward FFT of inframe and is carried as that inframe together with *)
(* the sample time at which it was completed; the inverse FFT gives the    *)
(* inframe back.  An overlap-add cell is the set of terms added into it.   *)
(***************************************************************************)
EXTENDS Integers, Sequences, FiniteSets, TLC

\* ---------------------------------------------------------------- bounds
MaxBufsize == 3
MaxBlocks == 5
MaxReconf == 1
MaxStops == 1
MaxReq == 5

\* ------------------------------------------------------------- variables
VARIABLES
    bufsize,   \* the server's block size (self->bufsize of every node)
    chain,     \* the nodes: "A" analyzer, "S" synthesizer, "T" transposer, "V" reverberator, "G" gate
    pc,        \* whose compute_next_data_frame the server calls next
    now,       \* absolute time, in samples, of the first sample of the current block
    anal,      \* the PVAnal object
    trans,     \* the transformer: the PVTranspose, PVVerb or PVGate object
    synth,     \* the PVSynth object
    heap,      \* the blocks obtained from malloc/realloc and not freed
    ctl,       \* the last control call (constructor or setter) and its argument
    nreconf,   \* number of setter calls made so far
    nstops,    \* number of stop() calls made so far
    obs,       \* what the last process calls did (observation only)
    host       \* the server and the interpreter the nodes live in

vars == <<bufsize, chain, pc, now, anal, trans, synth, heap, ctl, nreconf, nstops, obs,
          host>>

NoSample == 0 - 1
NoEdge == 0 - 1

\* ------------------------------------------------------- integer helpers
RECURSIVE BitAnd(_, _)
BitAnd(a, b) ==
    IF a = 0 \/ b = 0 THEN 0
    ELSE (a % 2) * (b % 2) + 2 * BitAnd(a \div 2, b \div 2)

\* the low 31 bits of the two's complement pattern of a 32-bit int
Low31(x) == IF x < 0 THEN (x + 2147483647) + 1 ELSE x

\* x & y == 0 on 32-bit ints
AndIsZero(x, y) == ~(x < 0 /\ y < 0) /\ BitAnd(Low31(x), Low31(y)) = 0

isPowerOfTwo(x) == (x # 0) /\ AndIsZero(x, x - 1)

\* k = 1; while (k < x) k *= 2;
RECURSIVE SnapLoop(_, _)
SnapLoop(k, x) == IF k < x THEN SnapLoop(k * 2, x) ELSE k

Snap(x) == IF ~isPowerOfTwo(x) THEN SnapLoop(1, x) ELSE x

\* ------------------------------------------------------------ the heap
Blk(n, f, r, g) == [node |-> n, field |-> f, row |-> r, gen |-> g]

\* a block kept through realloc(ptr, n): freed and obtained again in one call
Kept(n, fields) == {Blk(n, f, 0, 0) : f \in fields}

\* the rows malloc'ed by one run of a realloc_memories
Rows(n, fields, k, g) == {Blk(n, f, r, g) : f \in fields, r \in 0 .. (k - 1)}

\* ------------------------------------------------------------ PVStream
\* overcount++; if (overcount >= olaps) overcount = 0;
PVStream_nextSlot(overcount, olaps) ==
    IF overcount + 1 >= olaps THEN 0 ELSE overcount + 1

\* a transformer that leaves its count table as it is
PVStream_copyCount_None(count, upcount, i) == count

\* self->count[i] = count[i];
PVStream_copyCount(count, upcount, i) == [count EXCEPT ![i] = upcount[i]]

ZeroRow(size) == [edge |-> NoEdge, win |-> [k \in 0 .. (size - 1) |-> NoSample]]

NoNode == [alive |-> FALSE]

\* what a consumer latches from its input_stream at the start of a process call
Bus(node) ==
    [id |-> node.id, fftSize |-> node.pv.fftSize, olaps |-> node.pv.olaps,
     magn |-> node.magn, count |-> node.count]

\* what a setInput call can be given: an object with a pv_stream attribute (a
\* node of this module, id its class) or an object without one
PVObject(id) == [pv_stream |-> TRUE, id |-> id]

NoPVObject == [pv_stream |-> FALSE, id |-> "Sine"]

\* a setInput that binds whatever it is given
PVStream_setInput_Unchecked(self, arg) ==
    [node |-> [self EXCEPT !.input = arg.id], stderr |-> FALSE]

\* PVSynth_setInput, PVTranspose_setInput, PVVerb_setInput and PVGate_setInput,
\* all of the same text: without a pv_stream attribute the TypeError line is
\* written to stderr and None returned, else self->input and
\* self->input_stream are replaced; stderr tells whether the line was written
PVStream_setInput(self, arg) ==
    IF ~arg.pv_stream THEN [node |-> self, stderr |-> TRUE]
    ELSE [node |-> [self EXCEPT !.input = arg.id], stderr |-> FALSE]

PVSynth_setInput(self, arg) == PVStream_setInput(self, arg)

PVTranspose_setInput(self, arg) == PVStream_setInput(self, arg)

PVVerb_setInput(self, arg) == PVStream_setInput(self, arg)

PVGate_setInput(self, arg) == PVStream_setInput(self, arg)

\* --------------------------------------------------------------- PVAnal
PVAnal_realloc_memories(self, bs) ==
    LET hopsize == self.size \div self.olaps
        inputLatency == self.size - hopsize
    IN [self EXCEPT
          !.hsize = self.size \div 2,
          !.hopsize = hopsize,
          !.inputLatency = inputLatency,
          !.incount = inputLatency,
          !.overcount = 0,
          !.input_buffer = [k \in 0 .. (self.size - 1) |-> NoSample],
          !.magn = [o \in 0 .. (self.olaps - 1) |-> ZeroRow(self.size)],
          !.count = [i \in 0 .. (bs - 1) |-> inputLatency],
          !.pv = [fftSize |-> self.size, olaps |-> self.olaps],
          !.gen = self.gen + 1]

AnalKept == {"input_buffer", "inframe", "outframe", "lastPhase", "real", "imag",
             "magn", "freq", "twiddle", "window"}

\* the heap after PVAnal_realloc_memories run by the object self (already updated)
PVAnal_realloc_heap(h, self) ==
    h \cup Kept("PVAnal", AnalKept)
      \cup Rows("PVAnal", {"magn[i]", "freq[i]"}, self.olaps, self.gen)
      \cup Rows("PVAnal", {"twiddle[i]"}, 4, self.gen)

PVAnal_new(sizeArg, olapsArg, bs) ==
    PVAnal_realloc_memories(
        [alive |-> TRUE, active |-> TRUE, id |-> "PVAnal",
         size |-> Snap(sizeArg), olaps |-> olapsArg,
         hsize |-> 0, hopsize |-> 0, inputLatency |-> 0, incount |-> 0,
         overcount |-> 0, input_buffer |-> <<>>, magn |-> <<>>, count |-> <<>>,
         pv |-> [fftSize |-> 0, olaps |-> 0], gen |-> 0], bs)

PVAnal_setSize(self, arg, bs) ==
    PVAnal_realloc_memories([self EXCEPT !.size = Snap(arg)], bs)

PVAnal_setOverlaps(self, arg, bs) ==
    PVAnal_realloc_memories([self EXCEPT !.olaps = Snap(arg)], bs)

PVAnal_dealloc_heap(h, self) ==
    h \ (Kept("PVAnal", AnalKept \cup {"count"})
         \cup Rows("PVAnal", {"magn[i]", "freq[i]"}, self.olaps, self.gen)
         \cup Rows("PVAnal", {"twiddle[i]"}, 4, self.gen))

\* the test that closes a frame: if (self->incount >= self->size)
PVAnal_frameReady_Late(incount, size) == incount > size

PVAnal_frameReady(incount, size) == incount >= size

\* no shift at all
ShiftDown_None(buf, k, n, h) == buf

\* for (k=0; k<n; k++) buf[k] = buf[k + h];   (in place, ascending)
RECURSIVE ShiftDown(_, _, _, _)
ShiftDown(buf, k, n, h) ==
    IF k >= n THEN buf
    ELSE ShiftDown([buf EXCEPT ![k] = buf[k + h]], k + 1, n, h)

\* inframe[(k+mod)%size] = input_buffer[k] * window[k], then realfft_split and
\* the magn/freq computation: the row written for the frame completed at time t
PVAnal_frame(self, buf, t) ==
    LET mod == self.hopsize * self.overcount
    IN [edge |-> t,
        win |-> [j \in 0 .. (self.size - 1) |->
                   buf[CHOOSE k \in 0 .. (self.size - 1) : (k + mod) % self.size = j]]]

\* one turn of the sample loop of PVAnal_process; L.a is the object, L.produced
\* the block indices at which a frame was completed so far, L.slots the slot
\* each of these frames was written to, L.writes the indices of input_buffer
\* written and the length the buffer had
PVAnal_sample(L, i, in) ==
    LET self == L.a
        buf == [self.input_buffer EXCEPT ![self.incount] = in]
        cnt == [self.count EXCEPT ![i] = self.incount]
        inc == self.incount + 1
    IN IF PVAnal_frameReady(inc, self.size)
       THEN [a |-> [self EXCEPT
                      !.count = cnt,
                      !.incount = self.inputLatency,
                      !.magn = [self.magn EXCEPT
                                  ![self.overcount] = PVAnal_frame(self, buf, in)],
                      !.input_buffer = ShiftDown(buf, 0, self.inputLatency, self.hopsize),
                      !.overcount = PVStream_nextSlot(self.overcount, self.olaps)],
             produced |-> L.produced \cup {i},
             slots |-> L.slots \cup {[i |-> i, slot |-> self.overcount]},
             writes |-> L.writes \cup {[at |-> self.incount, size |-> self.size]}]
       ELSE [a |-> [self EXCEPT !.count = cnt, !.incount = inc, !.input_buffer = buf],
             produced |-> L.produced, slots |-> L.slots,
             writes |-> L.writes \cup {[at |-> self.incount, size |-> self.size]}]

RECURSIVE PVAnal_loop(_, _, _, _)
PVAnal_loop(L, i, bs, t0) ==
    IF i >= bs THEN L
    ELSE PVAnal_loop(PVAnal_sample(L, i, t0 + i), i + 1, bs, t0)

\* PVAnal_process on the block whose first sample has time t0
PVAnal_process(self, bs, t0) ==
    PVAnal_loop([a |-> self, produced |-> {}, slots |-> {}, writes |-> {}], 0, bs, t0)

\* ------------------------------------------------ PVAnal: magn and freq
\* the bin loop of PVAnal_process on numbers. A spectrum value is a pair
\* [real, imag] of small integers; a phase is carried in eighths of a turn
\* (PI is 4, TWOPI is 8), a magnitude by its square, and a frequency in units
\* of sr / (8 * hopsize * size), in which k * sr / size is 8 * k * hopsize.
PI == 4

TWOPI == 8

\* phase = MYATAN2(imag, real), on the eight directions and on (0, 0)
MYATAN2(imag, real) ==
    IF imag = 0 THEN (IF real >= 0 THEN 0 ELSE PI)
    ELSE IF imag > 0 THEN (IF real > 0 THEN 1 ELSE IF real = 0 THEN 2 ELSE 3)
    ELSE (IF real > 0 THEN 0 - 1 ELSE IF real = 0 THEN 0 - 2 ELSE 0 - 3)

\* while (tmp > PI) tmp -= TWOPI; while (tmp < -PI) tmp += TWOPI;
RECURSIVE PVAnal_wrap(_)
PVAnal_wrap(tmp) ==
    IF tmp > PI THEN PVAnal_wrap(tmp - TWOPI)
    ELSE IF tmp < 0 - PI THEN PVAnal_wrap(tmp + TWOPI)
    ELSE tmp

\* k * sr / size, the centre frequency of bin k
PVAnal_centre(k, hopsize) == TWOPI * k * hopsize

\* (tmp + k * scale) * factor, with scale = TWOPI * hopsize / size and
\* factor = sr / (hopsize * TWOPI)
PVAnal_freq(tmp, k, size, hopsize) == tmp * size + PVAnal_centre(k, hopsize)

\* the body of the bin loop for bin k holding the spectrum value x
PVAnal_bin(x, k, lastPhase, size, hopsize) ==
    LET mag2 == x.real * x.real + x.imag * x.imag
        phase == MYATAN2(x.imag, x.real)
        tmp == PVAnal_wrap(phase - lastPhase)
    IN [magn |-> mag2, freq |-> PVAnal_freq(tmp, k, size, hopsize),
        lastPhase |-> phase, was |-> lastPhase]

\* the object as far as the bin loop goes, after PVAnal_realloc_memories
PVAnal_bins_new(sizeArg, olapsArg, bs) ==
    LET size == Snap(sizeArg)
        hsize == size \div 2
        hopsize == size \div olapsArg
        zero == [k \in 0 .. (hsize - 1) |-> 0]
    IN [alive |-> TRUE, active |-> TRUE, size |-> size, olaps |-> olapsArg,
        hsize |-> hsize, hopsize |-> hopsize, inputLatency |-> size - hopsize,
        incount |-> size - hopsize, overcount |-> 0,
        lastPhase |-> zero,
        magn |-> [o \in 0 .. (olapsArg - 1) |-> zero],
        freq |-> [o \in 0 .. (olapsArg - 1) |-> zero],
        count |-> [i \in 0 .. (bs - 1) |-> size - hopsize]]

\* one turn of the sample loop of PVAnal_process, the frames of the block
\* having the spectrum X; L.frames are the bins of the frames completed
PVAnal_bins_sample(L, i, X) ==
    LET self == L.a
        cnt == [self.count EXCEPT ![i] = self.incount]
        inc == self.incount + 1
        out == [k \in 0 .. (self.hsize - 1) |->
                  PVAnal_bin(X[k], k, self.lastPhase[k], self.size, self.hopsize)]
    IN IF PVAnal_frameReady(inc, self.size)
       THEN [a |-> [self EXCEPT
                      !.count = cnt,
                      !.incount = self.inputLatency,
                      !.lastPhase = [k \in 0 .. (self.hsize - 1) |-> out[k].lastPhase],
                      !.magn = [self.magn EXCEPT ![self.overcount] =
                                  [k \in 0 .. (self.hsize - 1) |-> out[k].magn]],
                      !.freq = [self.freq EXCEPT ![self.overcount] =
                                  [k \in 0 .. (self.hsize - 1) |-> out[k].freq]],
                      !.overcount = PVStream_nextSlot(self.overcount, self.olaps)],
             frames |-> L.frames \cup {[i |-> i, x |-> X, out |-> out]}]
       ELSE [a |-> [self EXCEPT !.count = cnt, !.incount = inc], frames |-> L.frames]

RECURSIVE PVAnal_bins_loop(_, _, _, _)
PVAnal_bins_loop(L, i, bs, X) ==
    IF i >= bs THEN L
    ELSE PVAnal_bins_loop(PVAnal_bins_sample(L, i, X), i + 1, bs, X)

PVAnal_bins_process(self, bs, X) ==
    PVAnal_bins_loop([a |-> self, frames |-> {}], 0, bs, X)

\* ----------------------------------------------------- upstream adaptation
\* if (self->size != size || self->olaps != olaps)
PVStream_changed_SizeOnly(size, olaps, busSize, busOlaps) == size # busSize

PVStream_changed(size, olaps, busSize, busOlaps) ==
    size # busSize \/ olaps # busOlaps

\* ---------------------------------------------------------- PVTranspose
PVTranspose_realloc_memories(self, bs) ==
    LET hopsize == self.size \div self.olaps
        inputLatency == self.size - hopsize
    IN [self EXCEPT
          !.hsize = self.size \div 2,
          !.hopsize = hopsize,
          !.overcount = 0,
          !.magn = [o \in 0 .. (self.olaps - 1) |-> ZeroRow(self.size)],
          !.count = [i \in 0 .. (bs - 1) |-> inputLatency],
          !.pv = [fftSize |-> self.size, olaps |-> self.olaps],
          !.gen = self.gen + 1]

PVTranspose_realloc_heap(h, self) ==
    h \cup Kept("PVTranspose", {"magn", "freq"})
      \cup Rows("PVTranspose", {"magn[i]", "freq[i]"}, self.olaps, self.gen)

\* a transpo value is carried as twice its value: 2 is the factor 1.0, 1 the
\* factor 0.5, 4 the factor 2.0, -2 the factor -1.0
TranspoOne == 2

TranspoValues == {0 - 2, 1, TranspoOne, 4}

\* what a transpo argument can be: a number, a stream object, no argument
\* at all, and, for a pointer, NULL or a pointer to no object
Number(v) == [kind |-> "number", val |-> v]

Other(kind) == [kind |-> kind, val |-> 0]

\* PVTranspose_setTranspo(arg): NULL is ignored, a number sets scalar mode, any
\* other object is taken as a stream; a pointer to no object crashes the
\* interpreter
PVTranspose_setTranspo(self, arg) ==
    IF arg.kind = "NULL" THEN self
    ELSE IF arg.kind = "number"
    THEN [self EXCEPT !.transpo = arg.val, !.modebuffer = 0]
    ELSE IF arg.kind = "stream"
    THEN [self EXCEPT !.modebuffer = 1]
    ELSE [self EXCEPT !.crashed = TRUE]

\* the values the local transpotmp of PVTranspose_new can hold after
\* PyArg_ParseTupleAndKeywords("O|O"): the argument if one was given, else
\* whatever the uninitialized variable holds
PVTranspose_transpotmp(arg) ==
    IF arg.kind = "omitted"
    THEN {Other("NULL"), Other("wild"), Other("stream")}
         \cup {Number(v) : v \in TranspoValues}
    ELSE {arg}

\* PVTranspose_new(input, transpo = arg), transpotmp being tmp
PVTranspose_new(up, bs, arg, tmp) ==
    LET self == [alive |-> TRUE, id |-> "PVTranspose", input |-> up.id,
                 size |-> up.fftSize, olaps |-> up.olaps,
                 hsize |-> 0, hopsize |-> 0, overcount |-> 0, magn |-> <<>>,
                 count |-> <<>>, pv |-> [fftSize |-> 0, olaps |-> 0], gen |-> 0,
                 transpo |-> TranspoOne, modebuffer |-> 0, crashed |-> FALSE,
                 ctor |-> [arg |-> arg.kind, readUnset |-> (arg.kind = "omitted"),
                           setTranspo |-> (tmp.kind # "NULL")]]
        set == IF tmp.kind # "NULL" THEN PVTranspose_setTranspo(self, tmp) ELSE self
    IN PVTranspose_realloc_memories(set, bs)

PVTranspose_dealloc_heap(h, self) ==
    h \ (Kept("PVTranspose", {"magn", "freq", "count"})
         \cup Rows("PVTranspose", {"magn[i]", "freq[i]"}, self.olaps, self.gen))

\* the largest int, and what a conversion of an out-of-range floating point
\* value to int can leave: the smallest int or the largest
IntMax == 2147483647

ConvOutcomes == {0 - IntMax - 1, IntMax}

Abs(x) == IF x < 0 THEN 0 - x ELSE x

\* whether k * transpo lies within the range of int
PVTranspose_inRange(k, transpo) ==
    k = 0 \/ Abs(transpo) \div 2 <= (IntMax - k) \div k

\* the product rounded to the nearest integer
PVTranspose_index_Round(k, transpo, conv) ==
    IF ~PVTranspose_inRange(k, transpo) THEN conv
    ELSE LET a == Abs(transpo)
             m == k * (a \div 2) + ((k * (a % 2) + 1) \div 2)
         IN IF transpo >= 0 THEN m ELSE 0 - m

\* index = (int)(k * transpo): the product truncated towards zero, and conv
\* where the product is outside the range of int
PVTranspose_index(k, transpo, conv) ==
    IF ~PVTranspose_inRange(k, transpo) THEN conv
    ELSE LET a == Abs(transpo)
             m == k * (a \div 2) + ((k * (a % 2)) \div 2)
         IN IF transpo >= 0 THEN m ELSE 0 - m

\* the outcomes to tell apart for a frame of hsize bins and the factors trs:
\* one where every product is within the range of int
PVTranspose_convs(trs, hsize) ==
    IF \A t \in trs : \A k \in 0 .. (hsize - 1) : PVTranspose_inRange(k, t)
    THEN {IntMax} ELSE ConvOutcomes

\* no source bin
NoBin == 0 - 1

\* the bin loop: R.magn[j] are the upstream bins whose magnitudes were added
\* into bin j, R.freq[j] the upstream bin whose frequency, times transpo, was
\* written there last, R.writes the indices written
RECURSIVE PVTranspose_bins(_, _, _, _, _)
PVTranspose_bins(R, k, hsize, transpo, conv) ==
    IF k >= hsize THEN R
    ELSE LET index == PVTranspose_index(k, transpo, conv)
             inside == index \in 0 .. (hsize - 1)
         IN PVTranspose_bins(
                IF index < hsize
                THEN [magn |-> IF inside
                               THEN [R.magn EXCEPT ![index] = R.magn[index] \cup {k}]
                               ELSE R.magn,
                      freq |-> IF inside THEN [R.freq EXCEPT ![index] = k] ELSE R.freq,
                      writes |-> R.writes \cup {index}]
                ELSE R,
                k + 1, hsize, transpo, conv)

\* the row written from the upstream row with the factor transpo: the bins
\* 0 .. hsize-1 are zeroed, then bin k is moved to index if (index < hsize);
\* writes are the bin indices written, transpo the factor applied
PVTranspose_frame(row, transpo, hsize, conv) ==
    LET R == PVTranspose_bins([magn |-> [j \in 0 .. (hsize - 1) |-> {}],
                               freq |-> [j \in 0 .. (hsize - 1) |-> NoBin],
                               writes |-> 0 .. (hsize - 1)],
                              0, hsize, transpo, conv)
    IN [edge |-> row.edge, win |-> row.win, transpo |-> transpo,
        writes |-> R.writes, magn |-> R.magn, freq |-> R.freq]

\* transpo = tr[i], in the audio-rate variant
PVTranspose_transpoAt_BlockStart(tr, i) == tr[0]

PVTranspose_transpoAt(tr, i) == tr[i]

\* one turn of the sample loop of PVTranspose_process_i / _a, transpo being the
\* factor the turn would apply
PVTranspose_sample(L, up, i, transpo, conv) ==
    LET self == L.t
        cnt == PVStream_copyCount(self.count, up.count, i)
    IN IF up.count[i] >= self.size - 1
       THEN LET row == PVTranspose_frame(up.magn[self.overcount], transpo,
                                         self.hsize, conv)
            IN [L EXCEPT
                  !.t = [self EXCEPT
                           !.count = cnt,
                           !.magn = [self.magn EXCEPT ![self.overcount] = row],
                           !.overcount = PVStream_nextSlot(self.overcount, self.olaps)],
                  !.processed = L.processed \cup {i},
                  !.applied = L.applied \cup {[i |-> i, transpo |-> transpo,
                                                slot |-> self.overcount]},
                  !.writes = L.writes \cup row.writes]
       ELSE [L EXCEPT !.t = [self EXCEPT !.count = cnt]]

\* tr is the block of the transpo stream, or the scalar in every place of it
RECURSIVE PVTranspose_loop(_, _, _, _, _, _)
PVTranspose_loop(L, up, i, bs, tr, conv) ==
    IF i >= bs THEN L
    ELSE PVTranspose_loop(
             PVTranspose_sample(L, up, i, PVTranspose_transpoAt(tr, i), conv),
             up, i + 1, bs, tr, conv)

\* the adaptation at the head of PVTranspose_process_i and _a
PVTranspose_adapt(self, up, bs) ==
    LET changed == PVStream_changed(self.size, self.olaps, up.fftSize, up.olaps)
        adapted == IF changed
                   THEN PVTranspose_realloc_memories(
                            [self EXCEPT !.size = up.fftSize, !.olaps = up.olaps], bs)
                   ELSE self
    IN [t |-> adapted, processed |-> {}, realloc |-> changed,
        used |-> [size |-> adapted.size, olaps |-> adapted.olaps],
        applied |-> {}, writes |-> {}]

\* PVTranspose_process_i; up is the upstream bus as latched at the start
PVTranspose_process_i(self, up, bs, conv) ==
    PVTranspose_loop(PVTranspose_adapt(self, up, bs), up, 0, bs,
                     [i \in 0 .. (bs - 1) |-> self.transpo], conv)

\* PVTranspose_process_a; tr is the block of the transpo stream
PVTranspose_process_a(self, up, bs, tr, conv) ==
    PVTranspose_loop(PVTranspose_adapt(self, up, bs), up, 0, bs, tr, conv)

\* --------------------------------------------------------------- PVVerb
\* the real values of the reverberator are carried in fixed point: revtime and
\* damp arguments in quarters (4 is 1.0), magnitudes in thousandths, amp and the
\* decay coefficient in millionths; a product is truncated where the floating
\* point product is rounded
One == 1000000

\* arguments given to revtime and damp, in quarters: below 0.0, 0.0, 1.0
\* and above 1.0
VerbArgs == {0 - 1, 0, 4, 5}

VerbDefault == 3

\* if (x < 0.0) x = 0.0; else if (x > 1.0) x = 1.0;
PVVerb_clip(q) == IF q < 0 THEN 0 ELSE IF q > 4 THEN 4 ELSE q

\* revtime = revtime * 0.25 + 0.75, in millionths
PVVerb_revtimeMap(q) == PVVerb_clip(q) * 62500 + 750000

\* damp = 1.0 - damp * 0.003, in millionths
PVVerb_dampMap_Inverted(q) == One - PVVerb_clip(q) * 750

\* damp = damp * 0.003 + 0.997, in millionths
PVVerb_dampMap(q) == PVVerb_clip(q) * 750 + 997000

\* the product of two values in millionths
MulOne(a, b) == (((a \div 1000) * b) \div 1000) + (((a % 1000) * b) \div One)

\* amp at bin k: amp = 1.0, then amp *= damp after each bin
RECURSIVE PVVerb_amp(_, _)
PVVerb_amp(k, damp) == IF k = 0 THEN One ELSE MulOne(PVVerb_amp(k - 1, damp), damp)

\* revtime * amp, the factor of (l_magn[k] - mag) at bin k
PVVerb_coef(k, revtime, damp) == MulOne(revtime, PVVerb_amp(k, damp))

\* a follower without the attack branch
PVVerb_follow_DecayOnly(l, mag, coef) == mag + ((l - mag) * coef) \div One

\* the follower of bin k after a frame of magnitude mag
PVVerb_follow(l, mag, coef) ==
    IF mag > l THEN mag ELSE mag + ((l - mag) * coef) \div One

PVVerb_realloc_memories(self, bs) ==
    LET hopsize == self.size \div self.olaps
        inputLatency == self.size - hopsize
        hsize == self.size \div 2
    IN [self EXCEPT
          !.hsize = hsize,
          !.hopsize = hopsize,
          !.overcount = 0,
          !.l_magn = [k \in 0 .. (hsize - 1) |-> 0],
          !.magn = [o \in 0 .. (self.olaps - 1) |->
                      [edge |-> NoEdge,
                       win |-> [k \in 0 .. (self.size - 1) |-> NoSample],
                       mag |-> [k \in 0 .. (hsize - 1) |-> 0]]],
          !.count = [i \in 0 .. (bs - 1) |-> inputLatency],
          !.pv = [fftSize |-> self.size, olaps |-> self.olaps],
          !.gen = self.gen + 1]

PVVerb_realloc_heap(h, self) ==
    h \cup Kept("PVVerb", {"l_magn", "magn", "freq"})
      \cup Rows("PVVerb", {"magn[i]", "freq[i]"}, self.olaps, self.gen)

\* PVVerb_setRevtime(arg) and PVVerb_setDamp(arg), arg a number
PVVerb_setRevtime(self, q) == [self EXCEPT !.revtime = q]

PVVerb_setDamp(self, q) == [self EXCEPT !.damp = q]

\* PVVerb_new(input, revtime, damp)
PVVerb_new(up, bs, revtime, damp) ==
    PVVerb_realloc_memories(
        PVVerb_setDamp(
            PVVerb_setRevtime(
                [alive |-> TRUE, id |-> "PVVerb", input |-> up.id,
                 size |-> up.fftSize, olaps |-> up.olaps,
                 hsize |-> 0, hopsize |-> 0, overcount |-> 0, l_magn |-> <<>>,
                 magn |-> <<>>, count |-> <<>>, pv |-> [fftSize |-> 0, olaps |-> 0],
                 gen |-> 0, revtime |-> VerbDefault, damp |-> VerbDefault,
                 coef |-> <<>>, decayed |-> {}, l_prev |-> <<>>, mag_in |-> 0],
                revtime),
            damp),
        bs)

\* one turn of the sample loop of PVVerb_process_ii; mag is the magnitude the
\* upstream frame holds in every bin, coef the factor revtime * amp of each bin,
\* decayed the bins that took the decay branch, l_prev the follower before the
\* frame and mag_in the magnitude of the frame
PVVerb_sample(L, up, i, mag, revtime, damp) ==
    LET self == L.v
        cnt == PVStream_copyCount(self.count, up.count, i)
        bins == 0 .. (self.hsize - 1)
        coef == [k \in bins |-> PVVerb_coef(k, revtime, damp)]
        l == [k \in bins |-> PVVerb_follow(self.l_magn[k], mag, coef[k])]
    IN IF up.count[i] >= self.size - 1
       THEN [L EXCEPT
               !.v = [self EXCEPT
                        !.count = cnt,
                        !.l_magn = l,
                        !.magn = [self.magn EXCEPT ![self.overcount] =
                                    [edge |-> up.magn[self.overcount].edge,
                                     win |-> up.magn[self.overcount].win,
                                     mag |-> l]],
                        !.coef = coef,
                        !.decayed = {k \in bins : ~(mag > self.l_magn[k])},
                        !.l_prev = self.l_magn,
                        !.mag_in = mag,
                        !.overcount = PVStream_nextSlot(self.overcount, self.olaps)],
               !.processed = L.processed \cup {i}]
       ELSE [L EXCEPT !.v = [self EXCEPT !.count = cnt]]

RECURSIVE PVVerb_loop(_, _, _, _, _, _, _)
PVVerb_loop(L, up, i, bs, mag, revtime, damp) ==
    IF i >= bs THEN L
    ELSE PVVerb_loop(PVVerb_sample(L, up, i, mag, revtime, damp),
                     up, i + 1, bs, mag, revtime, damp)

\* PVVerb_process_ii; up is the upstream bus as latched at the start
PVVerb_process_ii(self, up, bs, mag) ==
    LET revtime == PVVerb_revtimeMap(self.revtime)
        damp == PVVerb_dampMap(self.damp)
        changed == PVStream_changed(self.size, self.olaps, up.fftSize, up.olaps)
        adapted == IF changed
                   THEN PVVerb_realloc_memories(
                            [self EXCEPT !.size = up.fftSize, !.olaps = up.olaps], bs)
                   ELSE self
    IN PVVerb_loop([v |-> [adapted EXCEPT !.coef = <<>>, !.decayed = {},
                                           !.l_prev = <<>>, !.mag_in = 0],
                    processed |-> {}, realloc |-> changed],
                   up, 0, bs, mag, revtime, damp)

\* --------------------------------------------------------------- PVGate
\* thresh is carried in dB, damp in quarters (4 is 1.0), magnitudes and the
\* linear threshold in thousandths
GateThreshDefault == 0 - 20

GateDampDefault == 0

\* the damp values a damp stream takes
DampValues == {0, 2}

\* MYPOW(10.0, thresh * 0.05) for thresh a multiple of 20 dB, in thousandths
RECURSIVE PVGate_linear(_)
PVGate_linear(dB) ==
    IF dB = 0 THEN 1000
    ELSE IF dB < 0 THEN PVGate_linear(dB + 20) \div 10
    ELSE PVGate_linear(dB - 20) * 10

\* a gate that also damps the bins at the threshold
PVGate_below_OrAt(mag, thresh) == mag <= thresh

\* if (mag < thresh)
PVGate_below(mag, thresh) == mag < thresh

\* mag * damp
PVGate_damped(mag, damp) == (mag * damp) \div 4

PVGate_realloc_memories(self, bs) ==
    LET hsize == self.size \div 2
        hopsize == self.size \div self.olaps
        inputLatency == self.size - hopsize
    IN [self EXCEPT
          !.hsize = hsize,
          !.hopsize = hopsize,
          !.overcount = 0,
          !.magn = [o \in 0 .. (self.olaps - 1) |->
                      [edge |-> NoEdge,
                       win |-> [k \in 0 .. (self.size - 1) |-> NoSample],
                       mag |-> [k \in 0 .. (hsize - 1) |-> 0],
                       freq |-> [k \in 0 .. (hsize - 1) |-> NoBin],
                       in |-> <<>>, thresh |-> 0, damp |-> 0, at |-> 0 - 1]],
          !.count = [i \in 0 .. (bs - 1) |-> inputLatency],
          !.pv = [fftSize |-> self.size, olaps |-> self.olaps],
          !.gen = self.gen + 1]

PVGate_realloc_heap(h, self) ==
    h \cup Kept("PVGate", {"magn", "freq"})
      \cup Rows("PVGate", {"magn[i]", "freq[i]"}, self.olaps, self.gen)

\* PVGate_setThresh(arg): NULL is ignored, a number sets modebuffer[0] = 0, any
\* other object is taken as a stream
PVGate_setThresh(self, arg) ==
    IF arg.kind = "NULL" THEN self
    ELSE IF arg.kind = "number"
    THEN [self EXCEPT !.thresh = arg.val, !.modebuffer[0] = 0]
    ELSE [self EXCEPT !.modebuffer[0] = 1]

\* PVGate_setDamp(arg), on modebuffer[1]
PVGate_setDamp(self, arg) ==
    IF arg.kind = "NULL" THEN self
    ELSE IF arg.kind = "number"
    THEN [self EXCEPT !.damp = arg.val, !.modebuffer[1] = 0]
    ELSE [self EXCEPT !.modebuffer[1] = 1]

\* threshtmp and damptmp of PVGate_new, both initialized to NULL
PVGate_tmp(arg) == IF arg.kind = "omitted" THEN Other("NULL") ELSE arg

\* PVGate_new(input, thresh, damp)
PVGate_new(up, bs, threshArg, dampArg) ==
    PVGate_realloc_memories(
        PVGate_setDamp(
            PVGate_setThresh(
                [alive |-> TRUE, id |-> "PVGate", input |-> up.id,
                 size |-> up.fftSize, olaps |-> up.olaps,
                 hsize |-> 0, hopsize |-> 0, overcount |-> 0, magn |-> <<>>,
                 count |-> <<>>, pv |-> [fftSize |-> 0, olaps |-> 0], gen |-> 0,
                 thresh |-> GateThreshDefault, damp |-> GateDampDefault,
                 modebuffer |-> [j \in 0 .. 1 |-> 0]],
                PVGate_tmp(threshArg)),
            PVGate_tmp(dampArg)),
        bs)

\* procmode = modebuffer[0] + modebuffer[1] * 10
PVGate_procmode(self) == self.modebuffer[0] + self.modebuffer[1] * 10

\* the bins of one frame: in holds the upstream magnitudes, thresh is in dB
PVGate_frame(row, in, thresh, damp, hsize, i) ==
    LET T == PVGate_linear(thresh)
    IN [edge |-> row.edge,
        win |-> row.win,
        mag |-> [k \in 0 .. (hsize - 1) |->
                   IF PVGate_below(in[k], T) THEN PVGate_damped(in[k], damp)
                   ELSE in[k]],
        freq |-> [k \in 0 .. (hsize - 1) |-> k],
        in |-> [k \in 0 .. (hsize - 1) |-> in[k]],
        thresh |-> T, damp |-> damp, at |-> i]

\* one turn of the sample loop of the four process functions; thresh and damp
\* are the values the variant uses at sample i
PVGate_sample(L, up, i, in, thresh, damp) ==
    LET self == L.g
        cnt == PVStream_copyCount(self.count, up.count, i)
    IN IF up.count[i] >= self.size - 1
       THEN [L EXCEPT
               !.g = [self EXCEPT
                        !.count = cnt,
                        !.magn = [self.magn EXCEPT ![self.overcount] =
                                    PVGate_frame(up.magn[self.overcount], in,
                                                 thresh, damp, self.hsize, i)],
                        !.overcount = PVStream_nextSlot(self.overcount, self.olaps)],
               !.processed = L.processed \cup {i},
               !.applied = L.applied \cup {[i |-> i, slot |-> self.overcount]}]
       ELSE [L EXCEPT !.g = [self EXCEPT !.count = cnt]]

\* rvt and dmp are the blocks of the thresh and damp streams, or the scalar in
\* every place
RECURSIVE PVGate_loop(_, _, _, _, _, _, _)
PVGate_loop(L, up, i, bs, in, rvt, dmp) ==
    IF i >= bs THEN L
    ELSE PVGate_loop(PVGate_sample(L, up, i, in, rvt[i], dmp[i]),
                     up, i + 1, bs, in, rvt, dmp)

\* the adaptation at the head of the four process functions
PVGate_adapt(self, up, bs) ==
    LET changed == PVStream_changed(self.size, self.olaps, up.fftSize, up.olaps)
        adapted == IF changed
                   THEN PVGate_realloc_memories(
                            [self EXCEPT !.size = up.fftSize, !.olaps = up.olaps], bs)
                   ELSE self
    IN [g |-> adapted, processed |-> {}, realloc |-> changed, applied |-> {}]

Scalar(v, bs) == [i \in 0 .. (bs - 1) |-> v]

PVGate_process_ii(self, up, bs, in) ==
    PVGate_loop(PVGate_adapt(self, up, bs), up, 0, bs, in,
                Scalar(self.thresh, bs), Scalar(self.damp, bs))

PVGate_process_ai(self, up, bs, in, rvt) ==
    PVGate_loop(PVGate_adapt(self, up, bs), up, 0, bs, in, rvt, Scalar(self.damp, bs))

PVGate_process_ia(self, up, bs, in, dmp) ==
    PVGate_loop(PVGate_adapt(self, up, bs), up, 0, bs, in, Scalar(self.thresh, bs), dmp)

PVGate_process_aa(self, up, bs, in, rvt, dmp) ==
    PVGate_loop(PVGate_adapt(self, up, bs), up, 0, bs, in, rvt, dmp)

\* PVGate_compute_next_data_frame: the function PVGate_setProcMode chose
PVGate_compute_next_data_frame(self, up, bs, in, rvt, dmp) ==
    LET procmode == PVGate_procmode(self)
    IN IF procmode = 0 THEN PVGate_process_ii(self, up, bs, in)
       ELSE IF procmode = 1 THEN PVGate_process_ai(self, up, bs, in, rvt)
       ELSE IF procmode = 10 THEN PVGate_process_ia(self, up, bs, in, dmp)
       ELSE PVGate_process_aa(self, up, bs, in, rvt, dmp)

\* --------------------------------------------------------------- PVSynth
PVSynth_realloc_memories(self) ==
    LET hopsize == self.size \div self.olaps
    IN [self EXCEPT
          !.hsize = self.size \div 2,
          !.hopsize = hopsize,
          !.inputLatency = self.size - hopsize,
          !.overcount = 0,
          !.output_buffer = [k \in 0 .. (self.size - 1) |-> {}],
          !.outputAccum = [k \in 0 .. (self.size + hopsize - 1) |-> {}],
          !.gen = self.gen + 1]

SynthKept == {"output_buffer", "inframe", "outframe", "sumPhase", "real", "imag",
              "outputAccum", "twiddle", "window"}

PVSynth_realloc_heap(h, self) ==
    h \cup Kept("PVSynth", SynthKept) \cup Rows("PVSynth", {"twiddle[i]"}, 4, self.gen)

PVSynth_new(up, bs) ==
    PVSynth_realloc_memories(
        [alive |-> TRUE, input |-> up.id, size |-> up.fftSize, olaps |-> up.olaps,
         hsize |-> 0, hopsize |-> 0, inputLatency |-> 0, overcount |-> 0,
         output_buffer |-> <<>>, outputAccum |-> <<>>,
         data |-> [i \in 0 .. (bs - 1) |-> {}], gen |-> 0])

PVSynth_dealloc_heap(h, self) ==
    h \ (Kept("PVSynth", SynthKept) \cup Rows("PVSynth", {"twiddle[i]"}, 4, self.gen))

\* mod = self->hopsize * self->overcount
PVSynth_mod(hopsize, overcount) == hopsize * overcount

\* the term outframe[j] * window[k] * ampscl added to a cell of outputAccum:
\* nothing for a 0.0, else the sample it resynthesizes, the time its frame was
\* completed and the time the synthesizer read the frame
Term(tok, edge, at) ==
    IF tok = NoSample THEN {} ELSE {[tok |-> tok, edge |-> edge, at |-> at]}

\* one turn of the sample loop of PVSynth_process, for the sample of time t
PVSynth_sample(L, up, i, t) ==
    LET self == L.s
        idx == up.count[i] - self.inputLatency
        inside == idx \in DOMAIN self.output_buffer
        dat == [self.data EXCEPT ![i] = IF inside THEN self.output_buffer[idx] ELSE {}]
    IN IF up.count[i] >= self.size - 1
       THEN LET row == up.magn[self.overcount]
                mod == PVSynth_mod(self.hopsize, self.overcount)
                acc == [k \in DOMAIN self.outputAccum |->
                          IF k < self.size
                          THEN self.outputAccum[k]
                               \cup Term(row.win[(k + mod) % self.size], row.edge, t)
                          ELSE self.outputAccum[k]]
            IN [L EXCEPT
                  !.s = [self EXCEPT
                           !.data = dat,
                           !.output_buffer =
                               [k \in DOMAIN self.output_buffer |->
                                  IF k < self.hopsize THEN acc[k]
                                  ELSE self.output_buffer[k]],
                           !.outputAccum = ShiftDown(acc, 0, self.size, self.hopsize),
                           !.overcount = PVStream_nextSlot(self.overcount, self.olaps)],
                  !.processed = L.processed \cup {i},
                  !.reads = L.reads \cup {[at |-> t, edge |-> row.edge,
                                            i |-> i, slot |-> self.overcount]},
                  !.oob = L.oob \/ ~inside]
       ELSE [L EXCEPT !.s = [self EXCEPT !.data = dat], !.oob = L.oob \/ ~inside]

RECURSIVE PVSynth_loop(_, _, _, _, _)
PVSynth_loop(L, up, i, bs, t0) ==
    IF i >= bs THEN L
    ELSE PVSynth_loop(PVSynth_sample(L, up, i, t0 + i), up, i + 1, bs, t0)

\* PVSynth_process; up is the upstream bus as latched at the start
PVSynth_process(self, up, bs, t0) ==
    LET changed == PVStream_changed(self.size, self.olaps, up.fftSize, up.olaps)
        adapted == IF changed
                   THEN PVSynth_realloc_memories(
                            [self EXCEPT !.size = up.fftSize, !.olaps = up.olaps])
                   ELSE self
    IN PVSynth_loop(
           [s |-> adapted, processed |-> {}, reads |-> {}, oob |-> FALSE,
            realloc |-> changed,
            used |-> [size |-> adapted.size, olaps |-> adapted.olaps]], up, 0, bs, t0)

\* ------------------------------------------------------------ the server
\* the node the server calls after the analyzer, in topological order
AfterAnal ==
    IF chain = "ATS" THEN "trans"
    ELSE IF chain \in {"AV", "AVS"} THEN "verb"
    ELSE IF chain \in {"AG", "AGS"} THEN "gate"
    ELSE "synth"

\* the bus the synthesizer is bound to
SynthUp == IF synth.input = "PVAnal" THEN Bus(anal) ELSE Bus(trans)

ChainUp == chain \in {"AS", "ATS", "AVS", "AGS"} => synth.alive

NoObs ==
    [last |-> "new", a_n |-> 0, a_edges |-> {}, a_produced |-> {}, a_slots |-> {},
     a_writes |-> {},
     t_processed |-> {}, t_realloc |-> FALSE, t_used |-> [size |-> 0, olaps |-> 0],
     t_applied |-> {}, t_writes |-> {}, t_tr |-> <<>>, g_rvt |-> <<>>, g_dmp |-> <<>>,
     call |-> [on |-> "none", arg |-> NoPVObject, stderr |-> FALSE],
     s_processed |-> {}, s_realloc |-> FALSE, s_used |-> [size |-> 0, olaps |-> 0],
     s_reads |-> {}, s_oob |-> FALSE,
     s_maxTok |-> NoSample, s_inOrder |-> TRUE, s_firstNew |-> NoEdge]

\* the objects after PVAnal_new(sz, ol), then PVTranspose_new and PVSynth_new
\* on the new analyzer, under a server of block size bs
ConstructWith(c, bs, sz, ol, transpoArg, transpotmp) ==
    LET a == PVAnal_new(sz, ol, bs)
        t == IF c = "ATS" THEN PVTranspose_new(Bus(a), bs, transpoArg, transpotmp)
             ELSE NoNode
        s == IF c = "A" THEN NoNode
             ELSE PVSynth_new(IF c = "ATS" THEN Bus(t) ELSE Bus(a), bs)
        ha == PVAnal_realloc_heap(Kept("PVAnal", {"count"}), a)
        ht == IF c = "ATS"
              THEN PVTranspose_realloc_heap(ha \cup Kept("PVTranspose", {"count"}), t)
              ELSE ha
        hs == IF c = "A" THEN ht ELSE PVSynth_realloc_heap(ht, s)
    IN /\ bufsize = bs
       /\ chain = c
       /\ pc = "anal"
       /\ now = 0
       /\ anal = a
       /\ trans = t
       /\ synth = s
       /\ heap = hs
       /\ ctl = [op |-> "new", req |-> sz, olapsReq |-> ol, at |-> 0,
                 was |-> [size |-> a.size, olaps |-> a.olaps]]
       /\ nreconf = 0
       /\ nstops = 0
       /\ obs = NoObs

\* the same with the transposer given the factor 1.0
Construct(c, bs, sz, ol) ==
    ConstructWith(c, bs, sz, ol, Number(TranspoOne), Number(TranspoOne))

\* constructor arguments and setter requests the running chain is driven with:
\* olaps <= size, so that hopsize >= 1
ChainSizeArgs == {2, 4}
ChainOlapsArgs == {1, 2, 4}
ChainSizeReqs == {r \in 2 .. 4 : Snap(r) >= anal.olaps}
ChainOlapsReqs == {r \in 1 .. 4 : Snap(r) <= anal.size}

\* the server booted and running, the interpreter alive, no refused constructor
HostUp == [booted |-> TRUE, exited |-> FALSE, refused |-> "none",
           wasBooted |-> FALSE, shutdown |-> FALSE, node |-> FALSE]

Init ==
    \E c \in {"AS", "ATS"}, bs \in 1 .. MaxBufsize,
       sz \in ChainSizeArgs, ol \in ChainOlapsArgs :
        /\ ol <= sz
        /\ Construct(c, bs, sz, ol)
        /\ host = HostUp

\* the server calls PVAnal_compute_next_data_frame
AnalProcess ==
    /\ pc = "anal" /\ anal.alive /\ anal.active /\ ChainUp
    /\ ~host.exited
    /\ chain # "A"
    /\ now < MaxBlocks * bufsize
    /\ LET L == PVAnal_process(anal, bufsize, now)
       IN /\ anal' = L.a
          /\ obs' = [obs EXCEPT !.last = "anal",
                                !.a_n = obs.a_n + bufsize,
                                !.a_edges = {obs.a_n + i + 1 : i \in L.produced},
                                !.a_produced = L.produced,
                                !.a_slots = L.slots,
                                !.a_writes = L.writes]
    /\ pc' = AfterAnal
    /\ UNCHANGED <<bufsize, chain, now, trans, synth, heap, ctl, nreconf, nstops, host>>

\* the server passes over the stopped analyzer: nothing of it is touched
AnalSkipped ==
    /\ pc = "anal" /\ anal.alive /\ ~anal.active /\ ChainUp
    /\ chain # "A"
    /\ now < MaxBlocks * bufsize
    /\ obs' = [obs EXCEPT !.last = "analSkipped", !.a_edges = {}, !.a_produced = {},
                          !.a_slots = {}, !.a_writes = {}]
    /\ pc' = AfterAnal
    /\ UNCHANGED <<bufsize, chain, now, anal, trans, synth, heap, ctl, nreconf, nstops, host>>

\* the server calls PVTranspose_compute_next_data_frame
TransProcess ==
    /\ pc = "trans"
    /\ trans.modebuffer = 0
    /\ \E conv \in PVTranspose_convs({trans.transpo}, anal.pv.fftSize \div 2) :
       LET L == PVTranspose_process_i(trans, Bus(anal), bufsize, conv)
       IN /\ trans' = L.t
          /\ heap' = IF L.realloc THEN PVTranspose_realloc_heap(heap, L.t) ELSE heap
          /\ obs' = [obs EXCEPT !.last = "trans",
                                !.t_processed = L.processed,
                                !.t_realloc = L.realloc,
                                !.t_used = L.used,
                                !.t_applied = L.applied,
                                !.t_writes = L.writes,
                                !.t_tr = [i \in 0 .. (bufsize - 1) |-> trans.transpo]]
    /\ pc' = "synth"
    /\ UNCHANGED <<bufsize, chain, now, anal, synth, ctl, nreconf, nstops, host>>

\* the values the transpo stream takes, and its blocks: one value at the first
\* sample of the block and one at all the others
StreamValues == {0 - 2, 4}

StreamBlocks(bs) ==
    {[i \in 0 .. (bs - 1) |-> IF i = 0 THEN a ELSE b] : a, b \in StreamValues}

\* the server calls PVTranspose_compute_next_data_frame, in audio-rate mode,
\* the transpo stream holding the block tr
TransProcessA(tr) ==
    /\ pc = "trans"
    /\ trans.modebuffer = 1
    /\ \E conv \in PVTranspose_convs({tr[i] : i \in DOMAIN tr}, anal.pv.fftSize \div 2) :
       LET L == PVTranspose_process_a(trans, Bus(anal), bufsize, tr, conv)
       IN /\ trans' = L.t
          /\ heap' = IF L.realloc THEN PVTranspose_realloc_heap(heap, L.t) ELSE heap
          /\ obs' = [obs EXCEPT !.last = "trans",
                                !.t_processed = L.processed,
                                !.t_realloc = L.realloc,
                                !.t_used = L.used,
                                !.t_applied = L.applied,
                                !.t_writes = L.writes,
                                !.t_tr = tr]
    /\ pc' = "synth"
    /\ UNCHANGED <<bufsize, chain, now, anal, synth, ctl, nreconf, nstops, host>>

\* PVTranspose_setTranspo(arg), between two blocks
SetTranspo(arg) ==
    /\ pc = "anal" /\ chain = "ATS" /\ trans.alive /\ ~host.exited
    /\ nreconf < MaxReconf
    /\ trans' = PVTranspose_setTranspo(trans, arg)
    /\ nreconf' = nreconf + 1
    /\ obs' = [obs EXCEPT !.last = "setTranspo"]
    /\ UNCHANGED <<bufsize, chain, pc, now, anal, synth, heap, ctl, nstops, host>>

\* the magnitudes an upstream frame can hold, in thousandths
MagValues == {0, 1000}

\* the server calls PVVerb_compute_next_data_frame, the frames of the block
\* holding the magnitude mag in every bin; without a synthesizer the block is
\* over
VerbProcess(mag) ==
    /\ pc = "verb"
    /\ LET L == PVVerb_process_ii(trans, Bus(anal), bufsize, mag)
       IN /\ trans' = L.v
          /\ heap' = IF L.realloc THEN PVVerb_realloc_heap(heap, L.v) ELSE heap
          /\ obs' = [obs EXCEPT !.last = "verb",
                                !.t_processed = L.processed,
                                !.t_realloc = L.realloc]
    /\ pc' = IF chain = "AV" THEN "anal" ELSE "synth"
    /\ now' = IF chain = "AV" THEN now + bufsize ELSE now
    /\ UNCHANGED <<bufsize, chain, anal, synth, ctl, nreconf, nstops, host>>

\* the magnitudes the bins of an upstream frame can hold, in thousandths
GateFrames ==
    {[k \in 0 .. 1 |-> IF k = 0 THEN f[1] ELSE f[2]] :
        f \in {<<50, 100>>, <<100, 1000>>}}

\* the values a thresh stream takes, in dB
ThreshStreamValues == {0 - 20, 0}

\* the blocks of a parameter stream: one value at the first sample of the
\* block and another at all the others
GateBlocks(values, bs) ==
    {[i \in 0 .. (bs - 1) |-> IF i = 0 THEN ab[1] ELSE ab[2]] :
        ab \in {x \in values \X values : x[1] # x[2]}}

\* the server calls PVGate_compute_next_data_frame, the upstream frames of the
\* block holding the magnitudes in, the parameter streams the blocks rvt, dmp;
\* without a synthesizer the block is over
GateProcess(in) ==
    /\ pc = "gate"
    /\ \E rvt \in IF trans.modebuffer[0] = 1 THEN GateBlocks(ThreshStreamValues, bufsize)
                  ELSE {Scalar(trans.thresh, bufsize)},
          dmp \in IF trans.modebuffer[1] = 1 THEN GateBlocks(DampValues, bufsize)
                  ELSE {Scalar(trans.damp, bufsize)} :
       LET L == PVGate_compute_next_data_frame(trans, Bus(anal), bufsize, in, rvt, dmp)
       IN /\ trans' = L.g
          /\ heap' = IF L.realloc THEN PVGate_realloc_heap(heap, L.g) ELSE heap
          /\ obs' = [obs EXCEPT !.last = "gate",
                                !.t_processed = L.processed,
                                !.t_realloc = L.realloc,
                                !.t_applied = L.applied,
                                !.g_rvt = rvt,
                                !.g_dmp = dmp]
    /\ pc' = IF chain = "AG" THEN "anal" ELSE "synth"
    /\ now' = IF chain = "AG" THEN now + bufsize ELSE now
    /\ UNCHANGED <<bufsize, chain, anal, synth, ctl, nreconf, nstops, host>>

\* PVGate_setThresh(arg), between two blocks
SetThresh(arg) ==
    /\ pc = "anal" /\ chain \in {"AG", "AGS"} /\ trans.alive
    /\ nreconf < MaxReconf
    /\ trans' = PVGate_setThresh(trans, arg)
    /\ nreconf' = nreconf + 1
    /\ obs' = [obs EXCEPT !.last = "setThresh"]
    /\ UNCHANGED <<bufsize, chain, pc, now, anal, synth, heap, ctl, nstops, host>>

\* PVGate_setDamp(arg), between two blocks
SetGateDamp(arg) ==
    /\ pc = "anal" /\ chain \in {"AG", "AGS"} /\ trans.alive
    /\ nreconf < MaxReconf
    /\ trans' = PVGate_setDamp(trans, arg)
    /\ nreconf' = nreconf + 1
    /\ obs' = [obs EXCEPT !.last = "setDamp"]
    /\ UNCHANGED <<bufsize, chain, pc, now, anal, synth, heap, ctl, nstops, host>>

\* PVVerb_setRevtime(q), between two blocks
SetRevtime(q) ==
    /\ pc = "anal" /\ chain = "AV" /\ trans.alive
    /\ nreconf < MaxReconf
    /\ trans' = PVVerb_setRevtime(trans, q)
    /\ nreconf' = nreconf + 1
    /\ obs' = [obs EXCEPT !.last = "setRevtime"]
    /\ UNCHANGED <<bufsize, chain, pc, now, anal, synth, heap, ctl, nstops, host>>

\* PVVerb_setDamp(q), between two blocks
SetDamp(q) ==
    /\ pc = "anal" /\ chain = "AV" /\ trans.alive
    /\ nreconf < MaxReconf
    /\ trans' = PVVerb_setDamp(trans, q)
    /\ nreconf' = nreconf + 1
    /\ obs' = [obs EXCEPT !.last = "setDamp"]
    /\ UNCHANGED <<bufsize, chain, pc, now, anal, synth, heap, ctl, nstops, host>>

\* setInput(arg) of the transformer (on = "trans") or of the synthesizer
\* (on = "synth"), between two blocks
SetInput(on, arg) ==
    /\ pc = "anal" /\ trans.alive /\ synth.alive
    /\ nreconf < MaxReconf
    /\ LET r == IF on = "synth" THEN PVSynth_setInput(synth, arg)
                ELSE IF trans.id = "PVTranspose" THEN PVTranspose_setInput(trans, arg)
                ELSE IF trans.id = "PVVerb" THEN PVVerb_setInput(trans, arg)
                ELSE PVGate_setInput(trans, arg)
       IN /\ synth' = IF on = "synth" THEN r.node ELSE synth
          /\ trans' = IF on = "trans" THEN r.node ELSE trans
          /\ obs' = [obs EXCEPT !.last = "setInput",
                                !.call = [on |-> on, arg |-> arg, stderr |-> r.stderr]]
    /\ nreconf' = nreconf + 1
    /\ UNCHANGED <<bufsize, chain, pc, now, anal, heap, ctl, nstops, host>>

\* what a listener of the synthesizer's output notes of a block: the latest
\* input sample heard so far, whether every sample heard came after all those
\* heard before it, and the time of the first output that carries an input
\* sample received at or after the time since
Max(a, b) == IF a >= b THEN a ELSE b

RECURSIVE ScanOut(_, _, _, _, _, _)
ScanOut(O, data, i, bs, t0, since) ==
    IF i >= bs THEN O
    ELSE LET toks == {c.tok : c \in data[i]}
             top == IF toks = {} THEN O.maxTok
                    ELSE Max(O.maxTok, CHOOSE m \in toks : \A x \in toks : x <= m)
         IN ScanOut([maxTok |-> top,
                     inOrder |-> O.inOrder /\ \A x \in toks : x > O.maxTok,
                     firstNew |-> IF O.firstNew = NoEdge /\ \E x \in toks : x >= since
                                  THEN t0 + i ELSE O.firstNew],
                    data, i + 1, bs, t0, since)

\* the server calls PVSynth_compute_next_data_frame; the block is over
SynthProcess ==
    /\ pc = "synth"
    /\ LET L == PVSynth_process(synth, SynthUp, bufsize, now)
           O == ScanOut([maxTok |-> obs.s_maxTok, inOrder |-> obs.s_inOrder,
                         firstNew |-> obs.s_firstNew], L.s.data, 0, bufsize, now, ctl.at)
       IN /\ synth' = L.s
          /\ heap' = IF L.realloc THEN PVSynth_realloc_heap(heap, L.s) ELSE heap
          /\ obs' = [obs EXCEPT !.last = "synth",
                                !.s_processed = L.processed,
                                !.s_realloc = L.realloc,
                                !.s_used = L.used,
                                !.s_reads = L.reads,
                                !.s_oob = obs.s_oob \/ L.oob,
                                !.s_maxTok = O.maxTok,
                                !.s_inOrder = O.inOrder,
                                !.s_firstNew = O.firstNew]
    /\ pc' = "anal"
    /\ now' = now + bufsize
    /\ UNCHANGED <<bufsize, chain, anal, trans, ctl, nreconf, nstops, host>>

\* PVAnal_setSize(r), between two blocks
SetSize(r) ==
    /\ pc = "anal" /\ anal.alive /\ ChainUp
    /\ nreconf < MaxReconf
    /\ anal' = PVAnal_setSize(anal, r, bufsize)
    /\ heap' = PVAnal_realloc_heap(heap, anal')
    /\ ctl' = [op |-> "setSize", req |-> r, olapsReq |-> 0, at |-> now,
               was |-> [size |-> anal.size, olaps |-> anal.olaps]]
    /\ nreconf' = nreconf + 1
    /\ obs' = [obs EXCEPT !.last = "ctl", !.a_n = 0, !.a_edges = {},
                          !.s_firstNew = NoEdge]
    /\ UNCHANGED <<bufsize, chain, pc, now, trans, synth, nstops, host>>

\* PVAnal_setOverlaps(r), between two blocks
SetOverlaps(r) ==
    /\ pc = "anal" /\ anal.alive /\ ChainUp
    /\ nreconf < MaxReconf
    /\ anal' = PVAnal_setOverlaps(anal, r, bufsize)
    /\ heap' = PVAnal_realloc_heap(heap, anal')
    /\ ctl' = [op |-> "setOverlaps", req |-> 0, olapsReq |-> r, at |-> now,
               was |-> [size |-> anal.size, olaps |-> anal.olaps]]
    /\ nreconf' = nreconf + 1
    /\ obs' = [obs EXCEPT !.last = "ctl", !.a_n = 0, !.a_edges = {},
                          !.s_firstNew = NoEdge]
    /\ UNCHANGED <<bufsize, chain, pc, now, trans, synth, nstops, host>>

\* PVAnal_stop: the stream is made inactive, the buffers stay as they are
Stop ==
    /\ pc = "anal" /\ anal.alive /\ anal.active /\ ChainUp
    /\ chain # "A"
    /\ nstops < MaxStops
    /\ anal' = [anal EXCEPT !.active = FALSE]
    /\ nstops' = nstops + 1
    /\ obs' = [obs EXCEPT !.last = "stop"]
    /\ UNCHANGED <<bufsize, chain, pc, now, trans, synth, heap, ctl, nreconf, host>>

\* PVAnal_play: the stream is made active again
Play ==
    /\ pc = "anal" /\ anal.alive /\ ~anal.active /\ ChainUp
    /\ anal' = [anal EXCEPT !.active = TRUE]
    /\ obs' = [obs EXCEPT !.last = "play"]
    /\ UNCHANGED <<bufsize, chain, pc, now, trans, synth, heap, ctl, nreconf, nstops, host>>

\* teardown: a consumer holds a reference to its input, so it goes first
SynthDealloc ==
    /\ pc = "anal" /\ chain # "A" /\ synth.alive
    /\ heap' = PVSynth_dealloc_heap(heap, synth)
    /\ synth' = [synth EXCEPT !.alive = FALSE]
    /\ obs' = [obs EXCEPT !.last = "dealloc"]
    /\ UNCHANGED <<bufsize, chain, pc, now, anal, trans, ctl, nreconf, nstops, host>>

TransDealloc ==
    /\ pc = "anal" /\ chain = "ATS" /\ ~synth.alive /\ trans.alive
    /\ heap' = PVTranspose_dealloc_heap(heap, trans)
    /\ trans' = [trans EXCEPT !.alive = FALSE]
    /\ obs' = [obs EXCEPT !.last = "dealloc"]
    /\ UNCHANGED <<bufsize, chain, pc, now, anal, synth, ctl, nreconf, nstops, host>>

AnalDealloc ==
    /\ pc = "anal" /\ anal.alive
    /\ chain # "A" => ~synth.alive
    /\ chain = "ATS" => ~trans.alive
    /\ heap' = PVAnal_dealloc_heap(heap, anal)
    /\ anal' = [anal EXCEPT !.alive = FALSE]
    /\ obs' = [obs EXCEPT !.last = "dealloc"]
    /\ UNCHANGED <<bufsize, chain, pc, now, trans, synth, ctl, nreconf, nstops, host>>

Next ==
    \/ AnalProcess
    \/ AnalSkipped
    \/ TransProcess
    \/ SynthProcess
    \/ \E r \in ChainSizeReqs : SetSize(r)
    \/ \E r \in ChainOlapsReqs : SetOverlaps(r)
    \/ Stop
    \/ Play
    \/ SynthDealloc
    \/ TransDealloc
    \/ AnalDealloc

Spec == Init /\ [][Next]_vars

\* the chain left running, with no control call
NextRun ==
    \/ AnalProcess
    \/ TransProcess
    \/ SynthProcess

SpecRun == Init /\ [][NextRun]_vars

\* the analyzer alone, its constructor and setters given any request
Requests == (0 - MaxReq) .. MaxReq

InitCfg ==
    \E sz \in Requests, ol \in 1 .. MaxReq :
        Construct("A", 1, sz, ol) /\ host = HostUp

NextCfg ==
    \/ \E r \in Requests : SetSize(r)
    \/ \E r \in Requests : SetOverlaps(r)
    \/ AnalDealloc

SpecCfg == InitCfg /\ [][NextCfg]_vars

\* the analyzer alone, constructed with any size and with an olaps that is
\* positive or -1 (the constructor takes olaps as given; with -1 the quotient
\* size / olaps is exact), then its setters given any request
SignedOlaps == {0 - 1} \cup (1 .. MaxReq)

InitCfgSigned ==
    \E sz \in Requests, ol \in SignedOlaps :
        Construct("A", 1, sz, ol) /\ host = HostUp

SpecCfgSigned == InitCfgSigned /\ [][NextCfg]_vars

\* the analyzer alone under any configuration, its blocks processed
\* the server calls PVAnal_compute_next_data_frame of an analyzer nothing reads
AnalAlone ==
    /\ pc = "anal" /\ anal.alive /\ anal.active /\ chain = "A"
    /\ now < MaxBlocks * bufsize
    /\ LET L == PVAnal_process(anal, bufsize, now)
       IN /\ anal' = L.a
          /\ obs' = [obs EXCEPT !.last = "anal",
                                !.a_n = obs.a_n + bufsize,
                                !.a_edges = {obs.a_n + i + 1 : i \in L.produced},
                                !.a_produced = L.produced,
                                !.a_slots = L.slots,
                                !.a_writes = L.writes]
    /\ now' = now + bufsize
    /\ UNCHANGED <<bufsize, chain, pc, trans, synth, heap, ctl, nreconf, nstops, host>>

InitCfgRun ==
    \E bs \in 1 .. MaxBufsize, sz \in Requests, ol \in 1 .. MaxReq :
        Construct("A", bs, sz, ol) /\ host = HostUp

NextCfgRun ==
    \/ AnalAlone
    \/ \E r \in Requests : SetSize(r)
    \/ \E r \in Requests : SetOverlaps(r)

SpecCfgRun == InitCfgRun /\ [][NextCfgRun]_vars

\* the chain of analyzer and synthesizer, the analyzer constructed with any
\* olaps from 1 to size (the constructor takes olaps as given)
InitOlaps ==
    \E bs \in 1 .. MaxBufsize, sz \in ChainSizeArgs, ol \in 1 .. 4 :
        /\ ol <= sz
        /\ Construct("AS", bs, sz, ol)
        /\ host = HostUp

NextOlaps ==
    \/ AnalProcess
    \/ SynthProcess

SpecOlaps == InitOlaps /\ [][NextOlaps]_vars

\* the chain running under setter calls, never stopped nor torn down
NextReconf ==
    \/ AnalProcess
    \/ TransProcess
    \/ SynthProcess
    \/ \E r \in ChainSizeReqs : SetSize(r)
    \/ \E r \in ChainOlapsReqs : SetOverlaps(r)

SpecReconf == Init /\ [][NextReconf]_vars

\* ------------------------------------------------------ the transposer
\* the chain with the transposer constructed with any transpo argument or none
TranspoArgs == {Other("omitted"), Other("stream")} \cup {Number(v) : v \in TranspoValues}

InitTranspo ==
    \E bs \in 1 .. MaxBufsize, sz \in ChainSizeArgs, ol \in ChainOlapsArgs,
       arg \in TranspoArgs :
        \E tmp \in PVTranspose_transpotmp(arg) :
            /\ ol <= sz
            /\ ConstructWith("ATS", bs, sz, ol, arg, tmp)
            /\ host = [HostUp EXCEPT !.exited = trans.crashed]

NextTranspo ==
    \/ AnalProcess
    \/ TransProcess
    \/ \E tr \in StreamBlocks(bufsize) : TransProcessA(tr)
    \/ SynthProcess
    \/ \E arg \in TranspoArgs \ {Other("omitted")} : SetTranspo(arg)

SpecTranspo == InitTranspo /\ [][NextTranspo]_vars

\* the chain with a transposer of four bins and scalar factors from 0 up to
\* one whose products leave the range of int
WideValues == {0, 1, TranspoOne, 3, 4, IntMax}

InitWide ==
    \E bs \in 1 .. MaxBufsize, ol \in {1, 2}, v \in WideValues :
        /\ ConstructWith("ATS", bs, 8, ol, Number(v), Number(v))
        /\ host = HostUp

NextWide ==
    \/ AnalProcess
    \/ TransProcess
    \/ SynthProcess
    \/ \E v \in WideValues : SetTranspo(Number(v))

SpecWide == InitWide /\ [][NextWide]_vars

\* ------------------------------------------------- analyzer and gate
\* PVAnal_new(sz, ol), then PVGate_new on it with the arguments thresh and
\* damp, each a number, a stream or left out
GateArgs(values) ==
    {Other("omitted"), Other("stream")} \cup {Number(v) : v \in values}

GateChainOlaps == {1, 2}

InitGate ==
    \E bs \in 1 .. MaxBufsize, sz \in {4}, ol \in GateChainOlaps,
       threshArg \in GateArgs({0}), dampArg \in GateArgs({2}) :
        LET a == PVAnal_new(sz, ol, bs)
            g == PVGate_new(Bus(a), bs, threshArg, dampArg)
        IN /\ bufsize = bs
           /\ chain = "AG"
           /\ pc = "anal"
           /\ now = 0
           /\ anal = a
           /\ trans = g
           /\ synth = NoNode
           /\ heap = PVGate_realloc_heap(
                         PVAnal_realloc_heap(Kept("PVAnal", {"count"}), a)
                             \cup Kept("PVGate", {"count"}), g)
           /\ ctl = [op |-> "new", req |-> sz, olapsReq |-> ol, at |-> 0,
                     was |-> [size |-> a.size, olaps |-> a.olaps]]
           /\ nreconf = 0
           /\ nstops = 0
           /\ obs = NoObs
           /\ host = HostUp

NextGate ==
    \/ AnalProcess
    \/ \E in \in GateFrames : GateProcess(in)
    \/ \E arg \in GateArgs({0 - 40}) \ {Other("omitted")} : SetThresh(arg)
    \/ \E arg \in GateArgs({2}) \ {Other("omitted")} : SetGateDamp(arg)

SpecGate == InitGate /\ [][NextGate]_vars

\* ------------------------------- a transformer between analyzer and synthesizer
\* PVAnal_new(sz, ol), then a transposer, a reverberator or a gate on it with
\* its default arguments, then PVSynth_new on the transformer
NodeChains == {"ATS", "AVS", "AGS"}

PVTransformer_new(c, up, bs) ==
    IF c = "ATS" THEN PVTranspose_new(up, bs, Number(TranspoOne), Number(TranspoOne))
    ELSE IF c = "AVS" THEN PVVerb_new(up, bs, VerbDefault, VerbDefault)
    ELSE PVGate_new(up, bs, Other("omitted"), Other("omitted"))

PVTransformer_realloc_heap(c, h, self) ==
    IF c = "ATS"
    THEN PVTranspose_realloc_heap(h \cup Kept("PVTranspose", {"count"}), self)
    ELSE IF c = "AVS"
    THEN PVVerb_realloc_heap(h \cup Kept("PVVerb", {"count"}), self)
    ELSE PVGate_realloc_heap(h \cup Kept("PVGate", {"count"}), self)

InitNodes ==
    \E c \in NodeChains, bs \in 1 .. MaxBufsize, sz \in ChainSizeArgs, ol \in 1 .. 4 :
        LET a == PVAnal_new(sz, ol, bs)
            t == PVTransformer_new(c, Bus(a), bs)
            s == PVSynth_new(Bus(t), bs)
        IN /\ ol <= sz
           /\ bufsize = bs
           /\ chain = c
           /\ pc = "anal"
           /\ now = 0
           /\ anal = a
           /\ trans = t
           /\ synth = s
           /\ heap = PVSynth_realloc_heap(
                         PVTransformer_realloc_heap(
                             c, PVAnal_realloc_heap(Kept("PVAnal", {"count"}), a), t), s)
           /\ ctl = [op |-> "new", req |-> sz, olapsReq |-> ol, at |-> 0,
                     was |-> [size |-> a.size, olaps |-> a.olaps]]
           /\ nreconf = 0
           /\ nstops = 0
           /\ obs = NoObs
           /\ host = HostUp

\* the frame every upstream frame of this chain holds, for the gate
NodeFrame == [k \in 0 .. 1 |-> IF k = 0 THEN 50 ELSE 100]

NextNodes ==
    \/ AnalProcess
    \/ TransProcess
    \/ VerbProcess(1000)
    \/ GateProcess(NodeFrame)
    \/ SynthProcess
    \/ \E r \in ChainSizeReqs \cap {2, 4} : SetSize(r)
    \/ \E r \in ChainOlapsReqs \cap {1, 2} : SetOverlaps(r)

SpecNodes == InitNodes /\ [][NextNodes]_vars

\* ------------------------------------------------- the snapping loop
\* the loop of PVAnal_new, PVAnal_setSize and PVAnal_setOverlaps, one turn at
\* a time, on 32-bit ints; ctl holds the call, its request req, the candidate k
\* and the position step of the call
TwoTo30 == 1073741824

\* k *= 2 on a 32-bit int: the product if it fits, else, the overflow being
\* undefined, the wrapped product or a trap
Doubled(k) ==
    IF k >= TwoTo30
    THEN {[trap |-> FALSE, k |-> ((k - TwoTo30) * 2 - TwoTo30) - TwoTo30],
          [trap |-> TRUE, k |-> k]}
    ELSE IF k < 0 - TwoTo30
    THEN {[trap |-> FALSE, k |-> ((k + TwoTo30) * 2 + TwoTo30) + TwoTo30],
          [trap |-> TRUE, k |-> k]}
    ELSE {[trap |-> FALSE, k |-> k * 2]}

SnapRequests ==
    {0 - IntMax, 0 - 1, 0, 1, 3, 4, 5, TwoTo30 - 1, TwoTo30, TwoTo30 + 1, IntMax}

\* the sizes whose tables the model carries
Carried(k) == k \in 1 .. 8

InitSnap ==
    LET a == PVAnal_new(4, 1, 1)
    IN /\ bufsize = 1
       /\ chain = "A"
       /\ pc = "anal"
       /\ now = 0
       /\ anal = a
       /\ trans = NoNode
       /\ synth = NoNode
       /\ heap = PVAnal_realloc_heap(Kept("PVAnal", {"count"}), a)
       /\ ctl = [op |-> "new", req |-> 4, k |-> 4, step |-> "idle"]
       /\ nreconf = 0
       /\ nstops = 0
       /\ obs = NoObs
       /\ host = HostUp

\* a call of the constructor or of a setter with the request r
SnapCall(op, r) ==
    /\ ctl.step = "idle"
    /\ nreconf < MaxReconf
    /\ ctl' = [op |-> op, req |-> r, k |-> 0, step |-> "test"]
    /\ nreconf' = nreconf + 1
    /\ UNCHANGED <<bufsize, chain, pc, now, anal, trans, synth, heap, nstops, obs, host>>

\* if (!isPowerOfTwo(self->size)) { k = 1; ...
SnapTest ==
    /\ ctl.step = "test"
    /\ ctl' = IF ~isPowerOfTwo(ctl.req)
              THEN [ctl EXCEPT !.k = 1, !.step = "loop"]
              ELSE [ctl EXCEPT !.k = ctl.req, !.step = "return"]
    /\ UNCHANGED <<bufsize, chain, pc, now, anal, trans, synth, heap, nreconf, nstops,
                   obs, host>>

\* while (k < self->size) k *= 2;
SnapTurn ==
    /\ ctl.step = "loop"
    /\ IF ctl.k < ctl.req
       THEN \E d \in Doubled(ctl.k) :
                ctl' = IF d.trap THEN [ctl EXCEPT !.step = "trapped"]
                       ELSE [ctl EXCEPT !.k = d.k]
       ELSE ctl' = [ctl EXCEPT !.step = "return"]
    /\ UNCHANGED <<bufsize, chain, pc, now, anal, trans, synth, heap, nreconf, nstops,
                   obs, host>>

\* self->size = k (or olaps), PVAnal_realloc_memories(self), return
SnapReturn ==
    /\ ctl.step = "return"
    /\ ctl' = [ctl EXCEPT !.step = "idle"]
    /\ anal' = IF ~Carried(ctl.k) THEN anal
               ELSE IF ctl.op = "new" THEN PVAnal_new(ctl.k, 1, bufsize)
               ELSE IF ctl.op = "setSize"
               THEN PVAnal_realloc_memories([anal EXCEPT !.size = ctl.k], bufsize)
               ELSE PVAnal_realloc_memories([anal EXCEPT !.olaps = ctl.k], bufsize)
    /\ heap' = IF Carried(ctl.k) THEN PVAnal_realloc_heap(heap, anal') ELSE heap
    /\ UNCHANGED <<bufsize, chain, pc, now, trans, synth, nreconf, nstops, obs, host>>

NextSnap ==
    \/ \E op \in {"new", "setSize", "setOverlaps"}, r \in SnapRequests : SnapCall(op, r)
    \/ SnapTest
    \/ SnapTurn
    \/ SnapReturn

SpecSnap == InitSnap /\ [][NextSnap]_vars

\* a call that has started goes on
SpecSnapFair ==
    SpecSnap /\ WF_vars(SnapTest) /\ WF_vars(SnapTurn) /\ WF_vars(SnapReturn)

\* the chain with a transformer, its nodes given setInput calls with the
\* analyzer, the transformer itself or an object that is no spectral producer
InputArgs(on) ==
    {NoPVObject, PVObject("PVAnal")}
        \cup (IF on = "synth" THEN {PVObject(trans.id)} ELSE {})

NextInput ==
    \/ AnalProcess
    \/ TransProcess
    \/ VerbProcess(1000)
    \/ GateProcess(NodeFrame)
    \/ SynthProcess
    \/ \E on \in {"trans", "synth"} : \E arg \in InputArgs(on) : SetInput(on, arg)

SpecInput == InitNodes /\ [][NextInput]_vars

\* ------------------------------------------- analyzer and reverberator
\* PVAnal_new(sz, ol), then PVVerb_new on it with the arguments revtime, damp
VerbSizeArgs == {4, 8}

InitVerb ==
    \E bs \in 1 .. MaxBufsize, sz \in VerbSizeArgs, ol \in ChainOlapsArgs,
       revtime \in {0, 4}, damp \in {0, 4} :
        LET a == PVAnal_new(sz, ol, bs)
            v == PVVerb_new(Bus(a), bs, revtime, damp)
        IN /\ bufsize = bs
           /\ chain = "AV"
           /\ pc = "anal"
           /\ now = 0
           /\ anal = a
           /\ trans = v
           /\ synth = NoNode
           /\ heap = PVVerb_realloc_heap(
                         PVAnal_realloc_heap(Kept("PVAnal", {"count"}), a)
                             \cup Kept("PVVerb", {"count"}), v)
           /\ ctl = [op |-> "new", req |-> sz, olapsReq |-> ol, at |-> 0,
                     was |-> [size |-> a.size, olaps |-> a.olaps]]
           /\ nreconf = 0
           /\ nstops = 0
           /\ obs = NoObs
           /\ host = HostUp

NextVerb ==
    \/ AnalProcess
    \/ \E mag \in MagValues : VerbProcess(mag)
    \/ \E q \in VerbArgs : SetRevtime(q)
    \/ \E q \in VerbArgs : SetDamp(q)

SpecVerb == InitVerb /\ [][NextVerb]_vars

\* ------------------------------------------------- the analyzer's bins
\* the values realfft_split leaves in a bin: bin 0 is real (imag[0] = 0.0)
BinValues(k) ==
    IF k = 0 THEN {[real |-> r, imag |-> 0] : r \in {0 - 1, 0, 1}}
    ELSE {[real |-> 0, imag |-> 0], [real |-> 1, imag |-> 0],
          [real |-> 0, imag |-> 1], [real |-> 0 - 1, imag |-> 0 - 1]}

Spectra(hsize) == {X \in [0 .. (hsize - 1) -> BinValues(0) \cup BinValues(1)] :
                       \A k \in 0 .. (hsize - 1) : X[k] \in BinValues(k)}

InitBins ==
    \E bs \in 1 .. MaxBufsize, ol \in {1, 2} :
        /\ bufsize = bs
        /\ chain = "A"
        /\ pc = "anal"
        /\ now = 0
        /\ anal = PVAnal_bins_new(4, ol, bs)
        /\ trans = NoNode
        /\ synth = NoNode
        /\ heap = {}
        /\ ctl = [op |-> "new", req |-> 4, olapsReq |-> ol, at |-> 0,
                  was |-> [size |-> 4, olaps |-> ol]]
        /\ nreconf = 0
        /\ nstops = 0
        /\ obs = [last |-> "new", frames |-> {}]
        /\ host = HostUp

\* the server calls PVAnal_compute_next_data_frame, the frames completed in
\* the block having the spectrum X
AnalBins(X) ==
    /\ pc = "anal" /\ anal.alive /\ anal.active
    /\ now < MaxBlocks * bufsize
    /\ LET L == PVAnal_bins_process(anal, bufsize, X)
       IN /\ anal' = L.a
          /\ obs' = [last |-> "anal", frames |-> L.frames]
    /\ now' = now + bufsize
    /\ UNCHANGED <<bufsize, chain, pc, trans, synth, heap, ctl, nreconf, nstops, host>>

NextBins == \E X \in Spectra(anal.hsize) : AnalBins(X)

SpecBins == InitBins /\ [][NextBins]_vars

\* ------------------------------------------- constructors' input check
\* the classes whose constructor takes a spectral bus as input
PVConsumers == {"PVSynth", "PVTranspose", "PVVerb", "PVGate"}

PVNew_inputCheck_ExitIfBooted(hasPVStream, isBooted) ==
    IF ~hasPVStream
    THEN [shutdown |-> isBooted, exit |-> isBooted, node |-> ~isBooted]
    ELSE [shutdown |-> FALSE, exit |-> FALSE, node |-> TRUE]

\* if (PyObject_HasAttrString(inputtmp, "pv_stream") == 0) {
\*     if (getIsBooted) shutdown;  Py_Exit(1); }
\* shutdown: server.shutdown() is called; exit: Py_Exit(1) is called;
\* node: the constructor returns a node
PVNew_inputCheck(hasPVStream, isBooted) ==
    IF ~hasPVStream
    THEN [shutdown |-> isBooted, exit |-> TRUE, node |-> FALSE]
    ELSE [shutdown |-> FALSE, exit |-> FALSE, node |-> TRUE]

\* the analyzer alone, under a server booted or not
InitBind ==
    \E sz \in ChainSizeArgs, ol \in ChainOlapsArgs, b \in BOOLEAN :
        /\ ol <= sz
        /\ Construct("A", 1, sz, ol)
        /\ host = [HostUp EXCEPT !.booted = b]

\* Server.boot()
Boot ==
    /\ ~host.exited /\ ~host.booted
    /\ host' = [host EXCEPT !.booted = TRUE]
    /\ UNCHANGED <<bufsize, chain, pc, now, anal, trans, synth, heap, ctl, nreconf,
                   nstops, obs>>

\* Server.shutdown()
Shutdown ==
    /\ ~host.exited /\ host.booted
    /\ host' = [host EXCEPT !.booted = FALSE]
    /\ UNCHANGED <<bufsize, chain, pc, now, anal, trans, synth, heap, ctl, nreconf,
                   nstops, obs>>

\* PVSynth_new, PVTranspose_new, PVVerb_new or PVGate_new called with an input
\* object that has no pv_stream attribute
NewWithoutPVStream(class) ==
    /\ ~host.exited
    /\ LET c == PVNew_inputCheck(FALSE, host.booted)
       IN host' = [booted |-> host.booted /\ ~c.shutdown,
                   exited |-> c.exit,
                   refused |-> class,
                   wasBooted |-> host.booted,
                   shutdown |-> c.shutdown,
                   node |-> c.node]
    /\ UNCHANGED <<bufsize, chain, pc, now, anal, trans, synth, heap, ctl, nreconf,
                   nstops, obs>>

\* the interpreter runs on: the analyzer's setters stay callable
HostSetSize(r) == ~host.exited /\ SetSize(r)

HostSetOverlaps(r) == ~host.exited /\ SetOverlaps(r)

NextBind ==
    \/ Boot
    \/ Shutdown
    \/ \E class \in PVConsumers : NewWithoutPVStream(class)
    \/ \E r \in ChainSizeReqs : HostSetSize(r)
    \/ \E r \in ChainOlapsReqs : HostSetOverlaps(r)

SpecBind == InitBind /\ [][NextBind]_vars

\* ================================================================ claims
\* the time of sample i of the block the synthesizer processed last
OutTime(i) == now - bufsize + i

\* C1: counted from the analyzer's last (re)configuration, a frame is completed
\* exactly at the samples numbered hopsize, 2*hopsize, ... and the count value
\* published for the n-th sample (0-based) is inputLatency + (n mod hopsize),
\* whatever the block size.
C1_FrameCadence ==
    obs.last = "anal" =>
        /\ \A i \in 0 .. (bufsize - 1) :
              anal.count[i] =
                  anal.inputLatency + ((obs.a_n - bufsize + i) % anal.hopsize)
        /\ obs.a_edges =
              {m \in (obs.a_n - bufsize + 1) .. obs.a_n : m % anal.hopsize = 0}

\* C1 witness: after a setter call, a block size that neither divides nor is a
\* multiple of hopsize, past the first block, with a frame completed in the block
C1_Witness ==
    /\ obs.last = "anal"
    /\ nreconf > 0
    /\ bufsize % anal.hopsize # 0
    /\ anal.hopsize % bufsize # 0
    /\ obs.a_n > bufsize
    /\ obs.a_edges # {}

\* the overlap-add of the olaps frames whose window holds the input sample n,
\* each read at the sample it was completed at; silence before the first sample
Resynthesis(n, size, hopsize) ==
    IF n < 0 THEN {}
    ELSE {[tok |-> n, edge |-> e, at |-> e] :
             e \in {x \in n .. (n + size - 1) : (x + 1) % hopsize = 0}}

\* C2 as stated: every term of the output sample emitted at time n + inputLatency
\* resynthesizes input sample n, for every block size.
C2_DelayIsInputLatency ==
    obs.last = "synth" =>
        \A i \in 0 .. (bufsize - 1) :
            \A c \in synth.data[i] : c.tok = OutTime(i) - synth.inputLatency

\* the delay the chain has when left running with a block size not larger
\* than size: the sample emitted at time n + size is the resynthesis of input
\* sample n (size = inputLatency + hopsize)
DelayIsSize ==
    (obs.last = "synth" /\ bufsize <= synth.size) =>
        \A i \in 0 .. (bufsize - 1) :
            synth.data[i] =
                Resynthesis(OutTime(i) - synth.size, synth.size, synth.hopsize)

LegalCfg == anal.size >= 2 * anal.olaps

\* C4: every value the synthesizer emits at a sample is built only from frames
\* completed at or before that sample, and the frame it reads at a frame edge
\* is never one completed later, for every block size (checked where
\* size >= 2*olaps).
C4_NoLaterFrame ==
    (obs.last = "synth" /\ LegalCfg) =>
        /\ \A i \in 0 .. (bufsize - 1) :
              \A c \in synth.data[i] : c.edge <= OutTime(i)
        /\ \A r \in obs.s_reads : r.edge <= r.at

\* C5: a Transformer or the Synthesizer processes a frame at sample i of a block
\* iff its upstream produced a frame at sample i of that block; none while the
\* upstream is stopped (checked where size >= 2*olaps).
C5_FrameIffUpstream ==
    LegalCfg =>
        /\ obs.last = "trans" => obs.t_processed = obs.a_produced
        /\ obs.last = "synth" =>
              obs.s_processed =
                  (IF chain = "ATS" THEN obs.t_processed ELSE obs.a_produced)

IsPow2(x) == \E e \in 0 .. 30 : x = 2 ^ e

\* C6: after the constructor and any setter calls, size and olaps are both
\* powers of two.
C6_PowersOfTwo ==
    anal.alive => (IsPow2(anal.size) /\ IsPow2(anal.olaps))

\* C7: in every reachable analyzer configuration size >= 2*olaps, hopsize >= 2,
\* hopsize*olaps = size and inputLatency + hopsize = size.
C7_ConfigInvariants ==
    anal.alive =>
        /\ anal.size >= 2 * anal.olaps
        /\ anal.hopsize >= 2
        /\ anal.hopsize * anal.olaps = anal.size
        /\ anal.inputLatency + anal.hopsize = anal.size

\* the smallest power of two greater than r, and r itself if it is one
NextPow2(r) ==
    IF IsPow2(r) THEN r
    ELSE CHOOSE p \in {2 ^ e : e \in 0 .. 30} :
             p > r /\ \A q \in {2 ^ e : e \in 0 .. 30} : q > r => p <= q

\* C8: a non-power-of-two size or olaps request, given to the constructor or
\* to a setter, is snapped to the smallest power of two greater than it, a
\* power of two is kept, and the node is sized and published with the result.
C8_SnapValue ==
    anal.alive =>
        /\ ctl.op \in {"new", "setSize"} => anal.size = NextPow2(ctl.req)
        /\ ctl.op \in {"new", "setOverlaps"} => anal.olaps = NextPow2(ctl.olapsReq)
        /\ anal.pv = [fftSize |-> anal.size, olaps |-> anal.olaps]
        /\ DOMAIN anal.input_buffer = 0 .. (anal.size - 1)
        /\ DOMAIN anal.magn = 0 .. (anal.olaps - 1)

\* the same, for the requests the code does snap: the size given to the
\* constructor or to setSize, the olaps given to setOverlaps
SnapValueWhereSnapped ==
    anal.alive =>
        /\ ctl.op \in {"new", "setSize"} => anal.size = NextPow2(ctl.req)
        /\ ctl.op = "setOverlaps" => anal.olaps = NextPow2(ctl.olapsReq)

\* C9: no buffer is allocated, reallocated or freed inside a process call.
C9_NoAllocInProcess ==
    /\ obs.last = "trans" => ~obs.t_realloc
    /\ obs.last = "synth" => ~obs.s_realloc

NodeAlive(n) ==
    IF n = "PVAnal" THEN anal.alive
    ELSE IF n = "PVTranspose" THEN trans.alive
    ELSE synth.alive

\* C10: after any reconfigures followed by teardown, no buffer allocated by a
\* node remains allocated.
C10_NoLeak == \A b \in heap : NodeAlive(b.node)

\* C11: a consumer constructed with an input that has no pv_stream yields no
\* node and the interpreter is shut down (Py_Exit), whether the server was
\* booted or not; a booted server is shut down first.
C11_RefusedBind ==
    host.refused # "none" =>
        /\ ~host.node
        /\ host.exited
        /\ host.wasBooted => (host.shutdown /\ ~host.booted)

\* C11 witness: a constructor refused while the server was not booted
C11_Witness ==
    /\ host.refused \in PVConsumers
    /\ ~host.wasBooted
    /\ host.exited

\* the analyzer's size was changed by the last control call, at time ctl.at
SizeChanged == ctl.op = "setSize" /\ ctl.was.size # anal.size

\* the silent gap after the last control call is at most len samples long: the
\* output sample of time ctl.at + len, once emitted, or one before it, carries
\* an input sample received since the call
GapAtMost(len) ==
    now > ctl.at + len =>
        (obs.s_firstNew # NoEdge /\ obs.s_firstNew - ctl.at <= len)

\* C12: after a change of the analyzer's size between two blocks the
\* synthesizer emits no sample out of order and the silent gap is at most the
\* new inputLatency long (checked where the block is no longer than the old
\* and the new size, and olaps > 1).
C12_GapAtMostInputLatency ==
    (obs.last = "synth" /\ SizeChanged /\ anal.olaps > 1
       /\ bufsize <= anal.size /\ bufsize <= ctl.was.size) =>
        (obs.s_inOrder /\ GapAtMost(anal.inputLatency))

\* no sample out of order after a change of size, under any block size
InOrderAfterChange ==
    (obs.last = "synth" /\ SizeChanged) => obs.s_inOrder

\* the gap is the whole of the new size when the block is no longer than it
GapIsSize ==
    (obs.last = "synth" /\ SizeChanged /\ bufsize <= anal.size
       /\ obs.s_firstNew # NoEdge) =>
        obs.s_firstNew - ctl.at = anal.size

\* the overlap-add of the olaps consecutive frames, of those completed every
\* hopsize samples from time t0 on, whose window holds the input sample n
ResynthesisFrom(n, size, hopsize, t0) ==
    {[tok |-> n, edge |-> e, at |-> e] :
        e \in {x \in n .. (n + size - 1) : (x + 1 - t0) % hopsize = 0}}

\* after a change of size: the synthesizer has the new size once it has run,
\* no index it used fell outside its buffers, and every sample emitted
\* 2*newSize samples after the change or later is the overlap-add of olaps
\* consecutive frames analysed after the change
CoherentAfterChange ==
    /\ synth.size = anal.size /\ synth.olaps = anal.olaps
    /\ DOMAIN synth.output_buffer = 0 .. (anal.size - 1)
    /\ ~obs.s_oob
    /\ \A i \in 0 .. (bufsize - 1) :
          OutTime(i) >= ctl.at + 2 * anal.size =>
              synth.data[i] = ResynthesisFrom(OutTime(i) - anal.size, anal.size,
                                              anal.hopsize, ctl.at)

\* C13: when the analyzer switches size between blocks, the synthesizer has
\* reconfigured by the end of the next block with every index in bounds, and
\* from 2*newSize samples after the switch on every emitted sample is the
\* overlap-add of olaps consecutive frames analysed after the switch (checked
\* where size >= 2*olaps).
C13_CoherentWithin2Size ==
    (obs.last = "synth" /\ SizeChanged /\ LegalCfg) => CoherentAfterChange

\* the same holds where the block is no longer than the new size
CoherentUnderShortBlocks ==
    (obs.last = "synth" /\ SizeChanged /\ bufsize <= anal.size) => CoherentAfterChange

\* C14: whatever the transpo value, Transpose writes only to the bins
\* 0 .. hsize-1 of its current slot.
C14_WritesInsideRow ==
    obs.last = "trans" => obs.t_writes \subseteq 0 .. (trans.hsize - 1)

\* the same holds of the values that are not negative and whose products with
\* the bin numbers stay within int
WritesInsideRowIfNotNegative ==
    (obs.last = "trans" /\ \A a \in obs.t_applied : a.transpo >= 0) =>
        obs.t_writes \subseteq 0 .. (trans.hsize - 1)

\* C15 as stated: in the audio-rate variant the transpo value applied to a
\* frame is the value of the transpo stream at the first sample of the block
\* in which the frame edge falls.
C15_TranspoOfBlockStart ==
    (obs.last = "trans" /\ trans.modebuffer = 1) =>
        \A a \in obs.t_applied : a.transpo = obs.t_tr[0]

\* C15 amended: in the audio-rate variant the transpo value applied to a frame
\* is the value of the transpo stream at the sample of the block at which the
\* frame edge falls.
C15_TranspoOfEdgeSample ==
    (obs.last = "trans" /\ trans.modebuffer = 1) =>
        /\ obs.t_processed = {a.i : a \in obs.t_applied}
        /\ \A a \in obs.t_applied : a.transpo = obs.t_tr[a.i]
        /\ \A o \in DOMAIN trans.magn :
              trans.magn[o].edge \in {now + a.i : a \in obs.t_applied} =>
                  \E a \in obs.t_applied :
                      /\ trans.magn[o].edge = now + a.i
                      /\ trans.magn[o].transpo = obs.t_tr[a.i]

\* C15 witness: a frame edge that falls past the first sample of a block whose
\* stream value there differs from the value at the first sample
C15_Witness ==
    /\ obs.last = "trans"
    /\ trans.modebuffer = 1
    /\ \E a \in obs.t_applied : a.i > 0 /\ obs.t_tr[a.i] # obs.t_tr[0]

\* C16: a Transpose constructed with its input only runs in scalar mode with
\* transpo 1.0; its constructor does not call setTranspo and reads no value
\* that was not supplied.
C16_DefaultTranspo ==
    (chain = "ATS" /\ trans.ctor.arg = "omitted" /\ obs.last = "new") =>
        /\ ~trans.ctor.setTranspo
        /\ ~trans.ctor.readUnset
        /\ ~trans.crashed
        /\ trans.modebuffer = 0
        /\ trans.transpo = TranspoOne

\* C17 as stated: with revtime = 1.0 and damp = 0.0 the decay coefficient
\* revtime * amp is the same for every bin of a frame.
C17_SameCoefEveryBin ==
    (obs.last = "verb" /\ obs.t_processed # {} /\ trans.revtime = 4 /\ trans.damp = 0) =>
        \A j, k \in DOMAIN trans.coef : trans.coef[j] = trans.coef[k]

\* C17 amended: with revtime = 1.0 and damp = 0.0 the decay coefficient of bin 0
\* is 1.0 and that of every other bin is smaller than that of the bin below it
\* (higher bins decay faster); with damp = 1.0 it is 1.0 in every bin.
C17_CoefFallsWithBin ==
    (obs.last = "verb" /\ obs.t_processed # {} /\ trans.revtime = 4) =>
        /\ trans.damp = 0 =>
              /\ trans.coef[0] = One
              /\ \A k \in DOMAIN trans.coef : k > 0 => trans.coef[k] < trans.coef[k - 1]
        /\ trans.damp = 4 => \A k \in DOMAIN trans.coef : trans.coef[k] = One

\* after a decay the follower of a bin is no higher than that of the bin below
FollowerFallsWithBin ==
    obs.last = "verb" =>
        \A k \in DOMAIN trans.l_magn : k > 0 => trans.l_magn[k] <= trans.l_magn[k - 1]

\* C17 witness: a frame of at least two bins processed with revtime = 1.0 and
\* damp = 0.0, in which the followers decayed
C17_Witness ==
    /\ obs.last = "verb" /\ obs.t_processed # {}
    /\ trans.revtime = 4 /\ trans.damp = 0
    /\ trans.hsize >= 2
    /\ trans.decayed = 0 .. (trans.hsize - 1)
    /\ trans.l_magn[0] > 0

\* C18: a bin whose spectrum value is (0,0) is published with magnitude 0 and
\* with the frequency k * sampleRate / size, whatever its phase was in the
\* frame before.
C18_ZeroBinAtCentre ==
    obs.last = "anal" =>
        \A f \in obs.frames : \A k \in DOMAIN f.x :
            f.x[k] = [real |-> 0, imag |-> 0] =>
                /\ f.out[k].magn = 0
                /\ f.out[k].freq = PVAnal_centre(k, anal.hopsize)

\* the same holds of a bin whose phase was 0 in the frame before, and the
\* magnitude is 0 in every case
ZeroBinAtCentreAfterZeroPhase ==
    obs.last = "anal" =>
        \A f \in obs.frames : \A k \in DOMAIN f.x :
            f.x[k] = [real |-> 0, imag |-> 0] =>
                /\ f.out[k].magn = 0
                /\ f.out[k].was = 0 => f.out[k].freq = PVAnal_centre(k, anal.hopsize)

\* C20: at every frame edge the node downstream of the analyzer processes, its
\* overcount is the slot the analyzer wrote the frame completed at that sample
\* to; this holds after any blocks and any setSize / setOverlaps calls, a call
\* that sets the value already in force included.
C20_SlotOfUpstream ==
    /\ (obs.last = "synth" /\ chain = "AS") =>
           \A r \in obs.s_reads : [i |-> r.i, slot |-> r.slot] \in obs.a_slots
    /\ (obs.last = "trans" /\ chain = "ATS") =>
           \A a \in obs.t_applied : [i |-> a.i, slot |-> a.slot] \in obs.a_slots

\* the same holds as long as no setter call left size and olaps as they were
SlotOfUpstreamUnlessSameValue ==
    (ctl.op = "new" \/ ctl.was # [size |-> anal.size, olaps |-> anal.olaps]) =>
        C20_SlotOfUpstream

\* C21: every write input_buffer[incount] of the analyzer has 0 <= incount <
\* size, and between samples inputLatency <= incount < size, whatever integers
\* the constructor and the setters were given.
C21_IncountInsideBuffer ==
    anal.alive =>
        /\ \A w \in obs.a_writes : 0 <= w.at /\ w.at < w.size
        /\ anal.inputLatency <= anal.incount
        /\ anal.incount < anal.size

\* the same holds of the configurations with olaps <= size
IncountInsideBufferIfHop ==
    (anal.alive /\ anal.olaps <= anal.size /\ ctl.was.olaps <= ctl.was.size) =>
        C21_IncountInsideBuffer

\* the input sample received d samples before the one of time t, a 0.0 where
\* that lies before the last (re)configuration
SampleBefore(t, d) == IF t - d >= ctl.at THEN t - d ELSE NoSample

\* C23: at every frame completion input_buffer[k] holds the sample received
\* size-1-k samples before the current one (the frame row is the buffer rotated
\* by hopsize * slot), and after the shift the buffer holds the newest samples
\* at its front, in order.
C23_BufferHoldsLatest ==
    obs.last = "anal" =>
        /\ \A o \in DOMAIN anal.magn :
               anal.magn[o].edge # NoEdge =>
                   \A k \in 0 .. (anal.size - 1) :
                       anal.magn[o].win[(k + anal.hopsize * o) % anal.size]
                           = SampleBefore(anal.magn[o].edge, anal.size - 1 - k)
        /\ \A k \in 0 .. (anal.incount - 1) :
               anal.input_buffer[k]
                   = SampleBefore(now + bufsize - 1, anal.incount - 1 - k)

\* C23 witness: a frame completed from a buffer that was shifted and refilled,
\* every cell of it holding a sample
C23_Witness ==
    /\ obs.last = "anal" /\ obs.a_produced # {}
    /\ anal.olaps >= 2 /\ anal.inputLatency >= 1
    /\ \E o \in DOMAIN anal.magn :
           /\ anal.magn[o].edge = now + bufsize - 1
           /\ \A k \in 0 .. (anal.size - 1) : anal.magn[o].win[k] # NoSample
           /\ anal.magn[o].edge >= anal.size + anal.hopsize - 1

\* C24: the synthesizer's outputAccum is used at the indices 0 .. size+hopsize-1
\* only, after each frame's copy and shift its cells from size-hopsize on hold
\* zero, and a cell copied to output_buffer received at most olaps frames.
C24_AccumTailZero ==
    (obs.last = "synth" /\ chain = "AS") =>
        /\ DOMAIN synth.outputAccum = 0 .. (synth.size + synth.hopsize - 1)
        /\ obs.s_processed # {} =>
               /\ \A k \in (synth.size - synth.hopsize) .. (synth.size + synth.hopsize - 1) :
                      synth.outputAccum[k] = {}
               /\ \A k \in 0 .. (synth.hopsize - 1) :
                      Cardinality(synth.output_buffer[k]) <= synth.olaps

\* the same holds where hopsize * olaps = size
AccumTailZeroIfOlapsDivides ==
    synth.hopsize * synth.olaps = synth.size => C24_AccumTailZero

\* whether j is the floor of k * transpo, transpo >= 0 carried as twice its value
IsFloor(j, k, transpo) ==
    IF k = 0 THEN j = 0
    ELSE transpo >= (2 * j + k - 1) \div k /\ transpo <= (2 * j + 1) \div k

\* C25: for a scalar transpo >= 0, bin j of a frame the transposer wrote holds
\* the sum of the upstream magnitudes of the bins k with floor(k*transpo) = j
\* and the upstream frequency, times transpo, of the largest such k, zero if
\* there is none; with transpo = 1 the frame is the upstream frame.
C25_BinsSumAndLast ==
    obs.last = "trans" =>
        \A o \in DOMAIN trans.magn :
            LET row == trans.magn[o]
                bins == 0 .. (trans.hsize - 1)
            IN (row.edge # NoEdge /\ row.transpo >= 0) =>
                   /\ \A j \in bins :
                          LET from == {k \in bins : IsFloor(j, k, row.transpo)}
                          IN /\ row.magn[j] = from
                             /\ row.freq[j] = IF from = {} THEN NoBin
                                              ELSE CHOOSE k \in from : \A x \in from : x <= k
                   /\ row.transpo = TranspoOne =>
                          \A j \in bins : row.magn[j] = {j} /\ row.freq[j] = j

\* C25 witness: a frame written with a factor below 1, two upstream bins summed
\* into one bin and another bin left at zero
C25_Witness ==
    /\ obs.last = "trans" /\ obs.t_processed # {}
    /\ \E o \in DOMAIN trans.magn :
           /\ trans.magn[o].edge # NoEdge
           /\ trans.magn[o].transpo = 1
           /\ \E j \in 0 .. (trans.hsize - 1) : Cardinality(trans.magn[o].magn[j]) = 2
           /\ \E j \in 0 .. (trans.hsize - 1) : trans.magn[o].freq[j] = NoBin

\* the slot the last frame of the block went to
VerbLastSlot == (trans.overcount + trans.olaps - 1) % trans.olaps

\* C26: after Verb processes a frame the magnitude of its slot is, bin by bin,
\* the updated follower: the input magnitude where that exceeds the previous
\* follower, and mag_in + (L_prev - mag_in) * r * amp otherwise; the follower is
\* one value per bin whatever the slot (the previous follower is what the frame
\* before left in the slot before), and the output is never below the input.
C26_OutputIsFollower ==
    (obs.last = "verb" /\ obs.t_processed # {}) =>
        LET out == trans.magn[VerbLastSlot].mag
            before == (VerbLastSlot + trans.olaps - 1) % trans.olaps
        IN /\ DOMAIN trans.l_magn = 0 .. (trans.hsize - 1)
           /\ \A k \in 0 .. (trans.hsize - 1) :
                  /\ out[k] = trans.l_magn[k]
                  /\ trans.l_magn[k] =
                         IF trans.mag_in > trans.l_prev[k] THEN trans.mag_in
                         ELSE trans.mag_in
                              + ((trans.l_prev[k] - trans.mag_in) * trans.coef[k]) \div One
                  /\ out[k] >= trans.mag_in
           /\ (trans.olaps > 1 /\ trans.magn[before].edge # NoEdge) =>
                  trans.l_prev = trans.magn[before].mag

\* C26 witness: a frame decayed from the follower a louder frame left in
\* another slot, and stayed above its own input
C26_Witness ==
    /\ obs.last = "verb" /\ obs.t_processed # {}
    /\ trans.olaps > 1
    /\ trans.magn[(VerbLastSlot + trans.olaps - 1) % trans.olaps].edge # NoEdge
    /\ trans.mag_in = 0
    /\ \E k \in 0 .. (trans.hsize - 1) :
           /\ trans.l_prev[k] > 0
           /\ trans.magn[VerbLastSlot].mag[k] > 0
           /\ trans.magn[VerbLastSlot].mag[k] < trans.l_prev[k]

\* the magnitude the gate owes a bin of magnitude mag under the linear
\* threshold T and the factor damp (in quarters)
Gated(mag, T, damp) == IF mag < T THEN (mag * damp) \div 4 ELSE mag

\* the linear threshold of a thresh value in dB, in thousandths
LinearOf(dB) == IF dB = 0 - 40 THEN 10 ELSE IF dB = 0 - 20 THEN 100 ELSE 1000

\* C27: in each of the four variants, every frame the gate wrote holds at every
\* bin mag_in * damp if mag_in is strictly below the linear threshold and
\* mag_in otherwise, the threshold and damp being the scalars or the stream
\* values at the frame's sample, and the frequency of the same upstream bin.
C27_GateBelowThreshold ==
    obs.last = "gate" =>
        \A a \in obs.t_applied :
            LET row == trans.magn[a.slot]
                dB == IF trans.modebuffer[0] = 0 THEN trans.thresh ELSE obs.g_rvt[a.i]
                damp == IF trans.modebuffer[1] = 0 THEN trans.damp ELSE obs.g_dmp[a.i]
            IN row.at = a.i =>
                   /\ row.edge = anal.magn[a.slot].edge
                   /\ \A k \in 0 .. (trans.hsize - 1) :
                          /\ row.mag[k] = Gated(row.in[k], LinearOf(dB), damp)
                          /\ row.freq[k] = k

\* C27 witness, one per variant: a frame with one bin below the threshold,
\* damped, and one bin exactly at the threshold, passed unchanged
GateCase(procmode) ==
    /\ obs.last = "gate"
    /\ PVGate_procmode(trans) = procmode
    /\ \E a \in obs.t_applied :
           LET row == trans.magn[a.slot]
           IN /\ row.at = a.i
              /\ trans.hsize = 2
              /\ row.in[0] < row.thresh /\ row.mag[0] < row.in[0]
              /\ row.in[1] = row.thresh /\ row.mag[1] = row.in[1]

C27_Witness == GateCase(11)

GateCase_ii == GateCase(0)

GateCase_ai == GateCase(1)

GateCase_ia == GateCase(10)

\* the server is about to call the transformer of the chain
AtTransformer == pc \in {"trans", "verb", "gate"}

\* C28: a transformer's call leaves on its bus, at every sample of the block,
\* the count value of its upstream bus, and leaves the upstream's tables as
\* they were; the synthesizer behind it processes a frame at the samples at
\* which the analyzer completed one.
C28_CountRepublished ==
    /\ [](obs.last \in {"trans", "verb", "gate"} =>
            /\ trans.count = anal.count
            /\ obs.t_processed = obs.a_produced)
    /\ []((obs.last = "synth" /\ chain \in NodeChains) =>
            obs.s_processed = obs.a_produced)
    /\ [][AtTransformer => anal' = anal]_vars

\* C28 witness: the synthesizer behind a transformer processed a frame at the
\* sample at which the analyzer completed it, not the first of the block
C28_Witness ==
    /\ obs.last = "synth" /\ chain \in NodeChains
    /\ \E i \in obs.s_processed : i > 0 /\ i \in obs.a_produced
    /\ \E i \in DOMAIN trans.count : trans.count[i] # trans.count[0]

\* the slot counter of a node lies in 0 .. olaps - 1
SlotInRange(node) == node.alive => (0 <= node.overcount /\ node.overcount < node.olaps)

\* the frames of a block went to successive slots, the last of them to the slot
\* before overcount; frames are records with the sample i and the slot
SuccessiveSlots(frames, node) ==
    \A x \in frames :
        (x.slot + Cardinality({y \in frames : y.i >= x.i})) % node.olaps = node.overcount

\* a call of a node leaves overcount advanced by one, modulo olaps, for each
\* frame it processed, from 0 if the call reconfigured the node
SlotAdvance ==
    /\ (pc = "anal" /\ obs'.last = "anal") =>
           anal'.overcount =
               (anal.overcount + Cardinality(obs'.a_produced)) % anal.olaps
    /\ AtTransformer =>
           trans'.overcount =
               ((IF obs'.t_realloc THEN 0 ELSE trans.overcount)
                + Cardinality(obs'.t_processed)) % trans'.olaps
    /\ pc = "synth" =>
           synth'.overcount =
               ((IF obs'.s_realloc THEN 0 ELSE synth.overcount)
                + Cardinality(obs'.s_processed)) % synth'.olaps

\* C22: in every node 0 <= overcount < olaps in every reachable state;
\* overcount is 0 right after a reconfigure; each processed frame advances it
\* by one modulo olaps, so that successive frames occupy successive slots.
C22_SlotCounter ==
    /\ [](SlotInRange(anal) /\ SlotInRange(trans) /\ SlotInRange(synth))
    /\ [](obs.last = "ctl" => anal.overcount = 0)
    /\ []((obs.last \in {"trans", "verb", "gate"} /\ obs.t_realloc /\ obs.t_processed = {})
            => trans.overcount = 0)
    /\ []((obs.last = "synth" /\ obs.s_realloc /\ obs.s_processed = {})
            => synth.overcount = 0)
    /\ [](obs.last = "anal" => SuccessiveSlots(obs.a_slots, anal))
    /\ [](obs.last \in {"trans", "gate"} => SuccessiveSlots(obs.t_applied, trans))
    /\ [](obs.last = "synth" => SuccessiveSlots(obs.s_reads, synth))
    /\ [][SlotAdvance]_vars

\* C29: the snapping loop of the constructor, setSize and setOverlaps
\* terminates for every 32-bit request: a call that reached its power-of-two
\* test reaches its return.
C29_SnapTerminates == (ctl.step = "test") ~> (ctl.step = "return")

\* the same of the requests up to 2^30
SnapTerminatesUpToTwoTo30 ==
    (ctl.step = "test" /\ ctl.req <= TwoTo30) ~> (ctl.step = "return")

\* what the loop leaves for a request up to 2^30 that is no power of two: the
\* least power of two not below it
SnapResultUpToTwoTo30 ==
    (ctl.step = "return" /\ ctl.req <= TwoTo30) =>
        /\ ctl.k >= ctl.req /\ ctl.k >= 1
        /\ ctl.k = 1 \/ isPowerOfTwo(ctl.k)
        /\ (ctl.k > 1 /\ ~isPowerOfTwo(ctl.req)) => ctl.k \div 2 < ctl.req

\* no call with a request above 2^30 reaches its return, whatever the overflow
\* leaves
NoReturnAboveTwoTo30 == ctl.req > TwoTo30 => ctl.step # "return"

\* C30: a setInput call on the synthesizer or on a transformer with an object
\* that has no pv_stream writes the error and leaves the node as it was, its
\* input binding, size, olaps, overcount and tables included, and every other
\* node too; the synthesizer goes on reading the bus it was bound to.
C30_BadSetInputLeavesNode ==
    /\ [][(obs'.last = "setInput" /\ ~obs'.call.arg.pv_stream) =>
              /\ obs'.call.stderr
              /\ trans' = trans /\ synth' = synth /\ anal' = anal]_vars
    /\ []((obs.last = "synth" /\ obs.call.on # "none" /\ ~obs.call.arg.pv_stream) =>
              \A r \in obs.s_reads : r.edge = SynthUp.magn[r.slot].edge)

\* C30 witness: after a refused setInput of the synthesizer, the synthesizer,
\* still bound to the transformer, processed a frame of it
C30_Witness ==
    /\ obs.last = "synth"
    /\ obs.call.on = "synth" /\ obs.call.stderr
    /\ synth.input = trans.id
    /\ synth.overcount > 0
    /\ \E r \in obs.s_reads : r.edge # NoEdge

====
